---- MODULE Spec2Model ----
(***************************************************************************)
(* MonkeyType call tracing (monkeytype/tracing.py): the CallTracer profile *)
(* hook, the per-frame in-flight CallTrace records, the code-object cache  *)
(* and the trace_calls scope, driven by the call/return events a CPython   *)
(* 3.6/3.7 interpreter (setup.py) delivers to sys.setprofile hooks for     *)
(* plain functions and for generators that suspend at YIELD_VALUE.         *)
(***************************************************************************)
EXTENDS Integers, Sequences, FiniteSets, TLC

(* ---- bounds of the model ---- *)
MaxFrames == 2
MaxScopes == 2
MaxYields == 2
MaxSampleRate == 2
MaxTypes == 3
MaxBudget == 2

Frames == 1..MaxFrames
Tracers == 1..MaxScopes
NoHook == 0

(* ---- tracing.py module constants ---- *)
RETURN_VALUE_OPCODE == "RETURN_VALUE"
YIELD_VALUE_OPCODE == "YIELD_VALUE"
EVENT_CALL == "call"
EVENT_RETURN == "return"
SUPPORTED_EVENTS == {EVENT_CALL, EVENT_RETURN}

(* co_code[f_lasti] of a frame that has not executed an instruction        *)
(* (f_lasti = -1 reads the last byte of co_code, the argument byte 0 of    *)
(* the final instruction), and of a frame an exception is unwinding.       *)
OPCODE_ENTRY == "<0>"
OPCODE_RAISE == "RAISE_VARARGS"

(* ---- runtime values and their types ---- *)
(* "bad" is an object whose __class__ lookup raises, so that the           *)
(* isinstance test on the first line of get_type raises.                   *)
Values == {"None", "i", "s", "bad", "obj_GetFuncHelper", "obj_Local"}

(* Optional[type] is a set of class names: {} is Python's None (absent),   *)
(* a singleton is a class, a larger set is a typing.Union of its members.  *)
NoType == {}

GetTypeRaises(obj) == obj = "bad"

(* A member of a type is a term [origin, args]: a class has no args, a     *)
(* generic such as Dict[K, V] has the types K and V as its args.           *)
Class(name) == [origin |-> name, args |-> <<>>]
Generic(origin, args) == [origin |-> origin, args |-> args]

(* typing.Any *)
AnyType == {Class("Any")}

(* typing.Union[a, b]: flattened, duplicates removed *)
Union(a, b) == a \cup b

(* typing.Union[types] of a non-empty tuple of types *)
UnionOf(types) == UNION {types[i] : i \in DOMAIN types}

(* a shrink_types whose test for "no types" is off by one *)
shrink_types_off_by_one(types) ==
    IF Len(types) <= 1 THEN AnyType ELSE UnionOf(types)

(* typing.shrink_types: the argument is the tuple made of the iterable *)
shrink_types(types) ==
    IF Len(types) = 0 THEN AnyType ELSE UnionOf(types)

(* The container objects get_type is called with, and what they hold:     *)
(* {}, {'a': 1, 'b': 2}, {'a': 1, 2: 'b'}, {'a': 1, 'b': 'hello'},         *)
(* {'foo': {'a': 1, 'b': 'hello'}}; [], [1]; {1}; (), (1, 's').            *)
DictObjects == {"d_empty", "d_ab", "d_mixed", "d_a1_bs", "d_foo"}
ListObjects == {"l_empty", "l_i"}
SetObjects == {"set_i"}
TupleObjects == {"t_empty", "t_is"}
TypeObjects == {"cls_GetFuncHelper"}
CallableObjects == {"fn_squares"}
GeneratorObjects == {"gen"}

(* obj.keys() and obj.values() of a dict, in the same order *)
dict_keys(obj) ==
    CASE obj = "d_ab" -> <<"k_a", "k_b">>
      [] obj = "d_mixed" -> <<"k_a", "i">>
      [] obj = "d_a1_bs" -> <<"k_a", "k_b">>
      [] obj = "d_foo" -> <<"k_foo">>
      [] OTHER -> <<>>

dict_values(obj) ==
    CASE obj = "d_ab" -> <<"i", "i">>
      [] obj = "d_mixed" -> <<"i", "s">>
      [] obj = "d_a1_bs" -> <<"i", "s">>
      [] obj = "d_foo" -> <<"d_a1_bs">>
      [] OTHER -> <<>>

(* the elements of a list, set or tuple *)
elements(obj) ==
    CASE obj = "l_i" -> <<"i">>
      [] obj = "set_i" -> <<"i">>
      [] obj = "t_is" -> <<"i", "s">>
      [] OTHER -> <<>>

RECURSIVE get_type(_)
get_type(obj) ==
    IF obj \in TypeObjects THEN {Generic("Type", <<{Class("GetFuncHelper")}>>)}
    ELSE IF obj \in CallableObjects THEN {Class("Callable")}
    ELSE IF obj \in GeneratorObjects THEN {Generic("Iterator", <<AnyType>>)}
    ELSE IF obj \in ListObjects
    THEN {Generic("List",
            <<shrink_types([i \in DOMAIN elements(obj) |-> get_type(elements(obj)[i])])>>)}
    ELSE IF obj \in SetObjects
    THEN {Generic("Set",
            <<shrink_types([i \in DOMAIN elements(obj) |-> get_type(elements(obj)[i])])>>)}
    ELSE IF obj \in DictObjects
    THEN {Generic("Dict",
            <<shrink_types([i \in DOMAIN dict_keys(obj) |-> get_type(dict_keys(obj)[i])]),
              shrink_types([i \in DOMAIN dict_values(obj) |-> get_type(dict_values(obj)[i])])>>)}
    ELSE IF obj \in TupleObjects
    THEN IF elements(obj) = <<>> THEN {Class("Tuple")}
         ELSE {Generic("Tuple", [i \in DOMAIN elements(obj) |-> get_type(elements(obj)[i])])}
    ELSE CASE obj = "None" -> {Class("NoneType")}
           [] obj = "i" -> {Class("int")}
           [] obj \in {"s", "k_a", "k_b", "k_foo"} -> {Class("str")}
           [] obj = "obj_GetFuncHelper" -> {Class("GetFuncHelper")}
           [] obj = "obj_Local" -> {Class("Local")}
           [] OTHER -> {Class("object")}

(* ---- code objects ---- *)
Codes == {"uses_kw_only_arg", "squares", "explicit_return_none", "trace_types",
          "local_square", "unreadable", "local_method"}

co_name(code) ==
    IF code = "local_square" THEN "square" ELSE code

co_varnames(code) ==
    CASE code = "uses_kw_only_arg" -> <<"a", "b">>
      [] code = "squares" -> <<"n">>
      [] code = "local_square" -> <<"n">>
      [] code \in {"an_instance_method", "a_property", "a_cached_property",
                    "a_settable_property", "shared", "local_method"} -> <<"self">>
      [] code = "a_class_method" -> <<"cls">>
      [] OTHER -> <<>>

co_argcount(code) ==
    CASE code = "uses_kw_only_arg" -> 1
      [] code = "squares" -> 1
      [] code = "local_square" -> 1
      [] code \in {"an_instance_method", "a_property", "a_cached_property",
                    "a_settable_property", "shared", "a_class_method", "local_method"} -> 1
      [] OTHER -> 0

co_kwonlyargcount(code) ==
    IF code = "uses_kw_only_arg" THEN 1 ELSE 0

IsGenerator(code) == code = "squares"

(* every declared parameter of the code object *)
Parameters(code) ==
    {co_varnames(code)[i] : i \in 1..(co_argcount(code) + co_kwonlyargcount(code))}

(* the f_locals a call of the code object can start with: every parameter  *)
(* is bound when the call event is delivered                               *)
EntryLocals(code) ==
    CASE code = "uses_kw_only_arg" -> {[a |-> v, b |-> "s"] : v \in {"i", "bad"}}
      [] code = "squares" -> [{"n"} -> {"i"}]
      [] code = "local_square" -> [{"n"} -> {"i"}]
      [] code \in {"an_instance_method", "a_property", "a_cached_property",
                    "a_settable_property", "shared"} -> [{"self"} -> {"obj_GetFuncHelper"}]
      [] code = "a_class_method" -> [{"cls"} -> {"cls_GetFuncHelper"}]
      [] code = "local_method" -> [{"self"} -> {"obj_Local", "i"}]
      [] OTHER -> {<<>>}

(* ---- the objects function resolution looks at ---- *)
NoneObj == "None"

(* frame.f_globals.get(name, None); explicit_return_none is taken to be    *)
(* bound to a functools.wraps wrapper, so that __wrapped__ is followed     *)
f_globals_get(name) ==
    CASE name = "uses_kw_only_arg" -> "fn_uses_kw_only_arg"
      [] name = "squares" -> "fn_squares"
      [] name = "explicit_return_none" -> "wrapper_explicit_return_none"
      [] name = "trace_types" -> "fn_trace_types"
      [] name = "unreadable" -> "fn_unreadable"
      [] name = "square" -> "fn_async_square"
      [] name = "GetFuncHelper" -> "cls_GetFuncHelper"
      [] name = "shared" -> "fn_shared_global"
      [] OTHER -> NoneObj

GlobalValues == {"fn_uses_kw_only_arg", "fn_squares", "wrapper_explicit_return_none",
                 "fn_trace_types", "fn_unreadable", "fn_async_square", "cls_GetFuncHelper",
                 "fn_shared_global"}

IsClass(v) == v = "cls_GetFuncHelper"

(* getattr(func, '__code__', None) *)
code_of(func) ==
    CASE func = "fn_uses_kw_only_arg" -> "uses_kw_only_arg"
      [] func = "fn_squares" -> "squares"
      [] func = "fn_explicit_return_none" -> "explicit_return_none"
      [] func = "wrapper_explicit_return_none" -> "wrapper"
      [] func = "fn_trace_types" -> "trace_types"
      [] func = "fn_unreadable" -> "unreadable"
      [] func = "fn_async_square" -> "async_square"
      [] func = "fn_an_instance_method" -> "an_instance_method"
      [] func = "fn_a_static_method" -> "a_static_method"
      [] func = "fn_a_class_method" -> "a_class_method"
      [] func = "fn_a_property" -> "a_property"
      [] func = "fn_a_cached_property" -> "a_cached_property"
      [] func = "fn_a_settable_property" -> "a_settable_property"
      [] func \in {"fn_shared_global", "fn_shared_method"} -> "shared"
      [] func = "fn_local_method" -> "local_method"
      [] OTHER -> NoneObj

(* getattr(func, '__wrapped__', None) *)
wrapped_of(func) ==
    IF func = "wrapper_explicit_return_none" THEN "fn_explicit_return_none" ELSE NoneObj

RECURSIVE _has_code(_, _)
_has_code(func, code) ==
    IF func = NoneObj THEN NoneObj
    ELSE IF code_of(func) = code THEN func
    ELSE _has_code(wrapped_of(func), code)

(* inspect.getattr_static(obj, name, None): the class attribute as it is   *)
(* stored, descriptors not invoked. shared is a function object made from  *)
(* the same code as the module-level function of that name; local_method   *)
(* is a method of a class that is defined inside a function and is in no   *)
(* module's globals, called on an instance or, through the class, on an    *)
(* int.                                                                    *)
getattr_static(obj, name) ==
    IF obj \in {"obj_GetFuncHelper", "cls_GetFuncHelper"}
    THEN CASE name = "an_instance_method" -> "fn_an_instance_method"
           [] name = "a_static_method" -> "staticmethod_a_static_method"
           [] name = "a_class_method" -> "classmethod_a_class_method"
           [] name = "a_property" -> "property_a_property"
           [] name = "a_settable_property" -> "property_a_settable_property"
           [] name = "a_cached_property" -> "cached_property_a_cached_property"
           [] name = "shared" -> "fn_shared_method"
           [] OTHER -> NoneObj
    ELSE IF obj = "obj_Local" /\ name = "local_method" THEN "fn_local_method"
    ELSE NoneObj

(* the class of a stored attribute, for the isinstance tests *)
descriptor_class(val) ==
    CASE val = "staticmethod_a_static_method" -> "staticmethod"
      [] val = "classmethod_a_class_method" -> "classmethod"
      [] val \in {"property_a_property", "property_a_settable_property"} -> "property"
      [] val = "cached_property_a_cached_property" -> "cached_property"
      [] OTHER -> "function"

(* val.__func__, val.fget and val.func *)
descriptor_func(val) ==
    CASE val = "staticmethod_a_static_method" -> "fn_a_static_method"
      [] val = "classmethod_a_class_method" -> "fn_a_class_method"
      [] val = "property_a_property" -> "fn_a_property"
      [] val = "property_a_settable_property" -> "fn_a_settable_property"
      [] val = "cached_property_a_cached_property" -> "fn_a_cached_property"
      [] OTHER -> NoneObj

(* val.fset of a property *)
fset(val) ==
    IF val = "property_a_settable_property" THEN "fn_set_a_settable_property" ELSE NoneObj

(* val.fdel of a property *)
fdel(val) == NoneObj

(* a get_func_in_mro that looks at the stored attribute only *)
get_func_in_mro_no_unwrap(obj, code) ==
    _has_code(getattr_static(obj, co_name(code)), code)

get_func_in_mro(obj, code) ==
    LET val == getattr_static(obj, co_name(code))
        cand == IF descriptor_class(val) \in {"classmethod", "staticmethod"}
                THEN descriptor_func(val)
                ELSE IF descriptor_class(val) = "property"
                        /\ fset(val) = NoneObj /\ fdel(val) = NoneObj
                THEN descriptor_func(val)
                ELSE IF descriptor_class(val) = "cached_property"
                THEN descriptor_func(val)
                ELSE val
    IN  IF val = NoneObj THEN NoneObj ELSE _has_code(cand, code)

(* A frame, as the hook sees it: its identity, f_code, f_locals and the    *)
(* opcode at co_code[f_lasti].                                             *)
Frame(id, code, locals, opcode) ==
    [id |-> id, f_code |-> code, f_locals |-> locals, last_opcode |-> opcode]

(* a get_func that takes the global named like the code object *)
get_func_by_name(frame) == f_globals_get(co_name(frame.f_code))

get_func(frame) ==
    LET code == frame.f_code
        cand == f_globals_get(co_name(code))
        func1 == _has_code(cand, code)
        func2 == IF func1 = NoneObj /\ co_argcount(code) >= 1
                 THEN get_func_in_mro(frame.f_locals[co_varnames(code)[1]], code)
                 ELSE func1
        found == {get_func_in_mro(v, code) : v \in {g \in GlobalValues : IsClass(g)}}
                     \ {NoneObj}
    IN  IF func2 # NoneObj THEN func2
        ELSE IF found = {} THEN NoneObj
        ELSE CHOOSE f \in found : TRUE

(* ---- CallTrace ---- *)
CallTrace(func, arg_types) ==
    [func |-> func, arg_types |-> arg_types, return_type |-> NoType, yield_type |-> NoType]

add_yield_type(trace, typ) ==
    IF trace.yield_type = NoType
    THEN [trace EXCEPT !.yield_type = typ]
    ELSE [trace EXCEPT !.yield_type = Union(trace.yield_type, typ)]

(* ---- code filters a scope can be given ---- *)
(* "None": no filter; "pred": a predicate over code objects that rejects   *)
(* one function by name and raises for a code object whose co_filename it  *)
(* cannot resolve (config.default_code_filter, Path.resolve).              *)
CodeFilters == {"None", "pred"}

should_trace_result(filter, code) ==
    CASE co_name(code) = "explicit_return_none" -> "False"
      [] co_name(code) = "unreadable" -> "Raise"
      [] OTHER -> "True"

VARIABLES
    config,       \* the Config scopes are opened with: [code_filter, sample_rate]
    profile,      \* sys.getprofile(): NoHook or the installed CallTracer
    scopes,       \* the open trace_calls scopes, innermost last:
                  \* [tracer, old_trace, depth of the call stack at the with-statement]
    tstate,       \* per tracer/scope: "unused", "active", "exited"
    should_trace, \* CallTracer.should_trace
    sample_rate,  \* CallTracer.sample_rate (0 stands for None)
    traces,       \* CallTracer.traces: frame -> CallTrace
    cache,        \* CallTracer.cache: code -> function or None
    logged,       \* the scope's logger: the records passed to log(), in order
    flushed,      \* the scope's logger: number of flush() calls
    stack,        \* interpreter: the frames on the call stack, the executing one last
    fstate,       \* interpreter: "new", "running", "suspended", "throwing", "done"
    fcode,        \* interpreter: the frame's code object
    flocals,      \* interpreter: the frame's f_locals at entry
    fhist,        \* history of each frame's events
    last,         \* the last operation and what the hook did with it; hook is the
                  \* hook installed when the operation began, for a scope exit the
                  \* one installed when logger.flush() was called
    call,         \* a call of a library function: [fn, arg, res, done]
    db,           \* the tables of the SQLiteStore's database
    added,        \* history: the traces passed to SQLiteStore.add so far
    buffer,       \* CallTraceStoreLogger.traces, each trace with the number of its log call
    passed        \* history: the store.add calls of the logger, [traces, raised]

vars == <<config, profile, scopes, tstate, should_trace, sample_rate, traces, cache,
          logged, flushed, stack, fstate, fcode, flocals, fhist, last, call, db, added,
          buffer, passed>>

(* the state of the tracing machinery *)
tracingVars == <<config, profile, scopes, tstate, should_trace, sample_rate, traces,
                 cache, logged, flushed, stack, fstate, fcode, flocals, fhist, last>>

(* the state outside the tracing machinery *)
libVars == <<call, db, added, buffer, passed>>

(* the CallTraceStoreLogger *)
loggerVars == <<buffer, passed>>

(* the trace store and its logger *)
storeVars == <<db, added, buffer, passed>>

(* the tables create_call_trace_tables makes, without rows; the id of a    *)
(* row is its position in its table                                        *)
EmptyDb ==
    [monkeytype_signatures |-> <<>>, monkeytype_modules |-> <<>>,
     monkeytype_functions |-> <<>>, monkeytype_functions_signatures |-> {}]

StoreInit == db = EmptyDb /\ added = {} /\ buffer = <<>> /\ passed = <<>>

(* no library function is being called *)
NoCall == [fn |-> "none", arg |-> <<>>, res |-> <<>>, done |-> FALSE]

EmptyDict == <<>>

(* What has happened to a frame: the hook that got its first call event    *)
(* (its owner) and the branch that event took, the number of its yields    *)
(* and those of its yielded values whose event the owner received, whether *)
(* a type computation raised while the owner handled one of its events,    *)
(* and how it ended (with the value returned and whether the owner         *)
(* received that last event). Values are kept only for events the owner    *)
(* received while it held a record for the frame.                          *)
NoHist == [owner |-> NoHook, call |-> "none", n |-> 0, yvals |-> {}, fail |-> FALSE,
           term |-> [how |-> "none", val |-> "None", toOwner |-> FALSE]]

TracerInit ==
    /\ config \in [code_filter : CodeFilters, sample_rate : {0, MaxSampleRate}]
    /\ profile = NoHook
    /\ scopes = <<>>
    /\ tstate = [t \in Tracers |-> "unused"]
    /\ should_trace = [t \in Tracers |-> "None"]
    /\ sample_rate = [t \in Tracers |-> 0]
    /\ traces = [t \in Tracers |-> EmptyDict]
    /\ cache = [t \in Tracers |-> EmptyDict]
    /\ logged = [t \in Tracers |-> <<>>]
    /\ flushed = [t \in Tracers |-> 0]
    /\ stack = <<>>
    /\ fstate = [f \in Frames |-> "new"]
    /\ fcode = [f \in Frames |-> "None"]
    /\ flocals = [f \in Frames |-> <<>>]
    /\ fhist = [f \in Frames |-> NoHist]
    /\ last = [op |-> "init", t |-> NoHook, f |-> 0, path |-> "none", ret |-> "none",
               hook |-> NoHook]

Init == TracerInit /\ call = NoCall /\ StoreInit

(* ---- CallTracer ---- *)
(* The state of one CallTracer with its logger, as a record. *)
TracerState(t) == [traces |-> traces[t], cache |-> cache[t], logged |-> logged[t]]

(* What handling one event did: the tracer's state afterwards, whether an  *)
(* exception left the handler, and which branch was taken.                 *)
Outcome(s, raised, path) == [s |-> s, raised |-> raised, path |-> path]

(* a _get_func that resolves the frame at every call event *)
cache_after_get_func_every_time(ch, frame) ==
    (frame.f_code :> get_func(frame)) @@ ch

(* CallTracer._get_func: the cache after the lookup *)
cache_after_get_func(ch, frame) ==
    IF frame.f_code \notin DOMAIN ch
    THEN (frame.f_code :> get_func(frame)) @@ ch
    ELSE ch

(* handle_call: the names whose types are captured *)
arg_names(code) == SubSeq(co_varnames(code), 1, co_argcount(code))

(* handle_call: the sampling test; r is random.randrange(sample_rate) *)
not_sampled(rate, r) == rate # 0 /\ r # 0

(* a handle_call that tests for the opcode of a frame that has not started *)
is_resuming_at_entry(frame) == frame.last_opcode = OPCODE_ENTRY

(* a handle_call that takes every call event for a fresh call *)
is_resuming_never(frame) == FALSE

(* handle_call: the test for a generator frame that is being resumed *)
is_resuming(frame) == frame.last_opcode = YIELD_VALUE_OPCODE

handle_call(s, rate, frame, r) ==
    IF not_sampled(rate, r) THEN Outcome(s, FALSE, "unsampled")
    ELSE
      LET s1 == [s EXCEPT !.cache = cache_after_get_func(s.cache, frame)]
          func == s1.cache[frame.f_code]
          code == frame.f_code
          names == {arg_names(code)[i] : i \in 1..Len(arg_names(code))}
          bound == names \cap DOMAIN frame.f_locals
      IN  IF func = NoneObj THEN Outcome(s1, FALSE, "unresolved")
          ELSE IF is_resuming(frame) THEN Outcome(s1, FALSE, "resuming")
          ELSE IF \E n \in bound : GetTypeRaises(frame.f_locals[n])
               THEN Outcome(s1, TRUE, "typeerror")
          ELSE LET arg_types == [n \in bound |-> get_type(frame.f_locals[n])]
               IN  Outcome([s1 EXCEPT !.traces = (frame.id :> CallTrace(func, arg_types)) @@ @],
                           FALSE, "created")

(* a del that empties the dict *)
Without_any_key(d, k) == EmptyDict

(* a dict without one key *)
Without(d, k) == [x \in DOMAIN d \ {k} |-> d[x]]

(* a handle_return that sets the return type whatever the last opcode *)
finished_trace_any_opcode(trace, last_opcode, typ) ==
    [trace EXCEPT !.return_type = typ]

(* handle_return: the record as it is logged *)
finished_trace(trace, last_opcode, typ) ==
    IF last_opcode = RETURN_VALUE_OPCODE
    THEN [trace EXCEPT !.return_type = typ]
    ELSE trace

(* logger.log(trace) of the collecting logger; the frame is kept with the  *)
(* record to tell which call it came from.                                 *)
log(lg, frame, trace) == Append(lg, [frame |-> frame.id, trace |-> trace])

handle_return(s, frame, arg) ==
    IF GetTypeRaises(arg) THEN Outcome(s, TRUE, "typeerror")
    ELSE
      LET typ == get_type(arg)
          last_opcode == frame.last_opcode
      IN  IF frame.id \notin DOMAIN s.traces THEN Outcome(s, FALSE, "untracked")
          ELSE IF last_opcode = YIELD_VALUE_OPCODE
               THEN Outcome([s EXCEPT !.traces[frame.id] = add_yield_type(@, typ)],
                            FALSE, "yielded")
          ELSE Outcome([s EXCEPT !.traces = Without(@, frame.id),
                                 !.logged = log(@, frame,
                                     finished_trace(s.traces[frame.id], last_opcode, typ))],
                       FALSE, "logged")

(* CallTracer.__call__: ret is "self" when the hook returns, "raised" when *)
(* an exception leaves it.                                                 *)
HookResult(s, ret, path) == [s |-> s, ret |-> ret, path |-> path]

(* __call__: the try/except around the handlers *)
guarded(out) == HookResult(out.s, "self", out.path)

(* a __call__ that never consults the filter *)
filter_result_ignored(filter, code) == "True"

(* __call__: self.should_trace and not self.should_trace(code), evaluated  *)
(* outside the try block: "True" (handle the event), "False" or "Raise"    *)
filter_result(filter, code) ==
    IF filter = "None" THEN "True" ELSE should_trace_result(filter, code)

tracer_call(s, filter, rate, frame, event, arg, r) ==
    IF event \notin SUPPORTED_EVENTS THEN HookResult(s, "self", "unsupported")
    ELSE IF co_name(frame.f_code) = "trace_types" THEN HookResult(s, "self", "excluded")
    ELSE IF filter_result(filter, frame.f_code) = "Raise"
         THEN HookResult(s, "raised", "filter_raised")
    ELSE IF filter_result(filter, frame.f_code) = "False"
         THEN HookResult(s, "self", "filtered")
    ELSE IF event = EVENT_CALL THEN guarded(handle_call(s, rate, frame, r))
    ELSE guarded(handle_return(s, frame, arg))

(* ---- the interpreter delivering events to the installed hook ---- *)
tracerVars == <<traces, cache, logged>>

(* random.randrange(sample_rate) of the installed tracer *)
RandRange ==
    IF profile = NoHook \/ sample_rate[profile] = 0 THEN {0}
    ELSE 0..(sample_rate[profile] - 1)

(* the installed hook called with one event; NoHook: nothing is called *)
HookCall(frame, event, arg, r) ==
    IF profile = NoHook
    THEN HookResult(<<>>, "none", "nohook")
    ELSE tracer_call(TracerState(profile), should_trace[profile], sample_rate[profile],
                     frame, event, arg, r)

(* An exception leaving a profile function unsets it (sys.setprofile).     *)
Deliver(op, frame, res) ==
    /\ IF profile = NoHook
       THEN UNCHANGED tracerVars
       ELSE /\ traces' = [traces EXCEPT ![profile] = res.s.traces]
            /\ cache' = [cache EXCEPT ![profile] = res.s.cache]
            /\ logged' = [logged EXCEPT ![profile] = res.s.logged]
    /\ profile' = IF res.ret = "raised" THEN NoHook ELSE profile
    /\ last' = [op |-> op, t |-> profile, f |-> frame.id, path |-> res.path, ret |-> res.ret,
                hook |-> profile]
    /\ UNCHANGED <<config, scopes, tstate, should_trace, sample_rate, flushed>>
    /\ UNCHANGED libVars

(* the frame whose code is executing: the top of the call stack *)
Executing(f) == stack # <<>> /\ stack[Len(stack)] = f

Pop(st) == SubSeq(st, 1, Len(st) - 1)

(* a with-statement of the executing frame is still open: the frame        *)
(* leaves the scope before it returns or unwinds; generators that yield    *)
(* inside their own with-statement are not modelled                        *)
InOpenScope == scopes # <<>> /\ scopes[Len(scopes)].depth = Len(stack)

ToOwner(f) == profile # NoHook /\ profile = fhist[f].owner

(* the installed hook is the frame's owner and holds a record for it *)
Tracked(f) == ToOwner(f) /\ f \in DOMAIN traces[profile]

FailAfter(f, res) == fhist[f].fail \/ (ToOwner(f) /\ res.path = "typeerror")

Ended(f, how, v, res) ==
    [fhist EXCEPT ![f] =
        [@ EXCEPT !.term = [how |-> how, val |-> IF Tracked(f) THEN v ELSE "None",
                            toOwner |-> ToOwner(f)],
                  !.fail = FailAfter(f, res)]]

(* a function or generator is called: the frame's first call event *)
CallEvent(f, code, locals, r) ==
    /\ fstate[f] = "new"
    /\ IF f = 1 THEN TRUE ELSE fstate[f - 1] # "new"
    /\ LET frame == Frame(f, code, locals, OPCODE_ENTRY)
           res == HookCall(frame, EVENT_CALL, "None", r)
       IN  /\ Deliver("call", frame, res)
           /\ fhist' = [fhist EXCEPT ![f] =
                  [@ EXCEPT !.owner = profile, !.call = res.path,
                            !.fail = (profile # NoHook /\ res.path = "typeerror")]]
    /\ fstate' = [fstate EXCEPT ![f] = "running"]
    /\ stack' = Append(stack, f)
    /\ fcode' = [fcode EXCEPT ![f] = code]
    /\ flocals' = [flocals EXCEPT ![f] = locals]

(* the executing generator frame yields v: a return event at YIELD_VALUE *)
YieldEvent(f, v) ==
    /\ Executing(f)
    /\ ~InOpenScope
    /\ fstate[f] = "running"
    /\ IsGenerator(fcode[f])
    /\ fhist[f].n < MaxYields
    /\ LET frame == Frame(f, fcode[f], flocals[f], YIELD_VALUE_OPCODE)
           res == HookCall(frame, EVENT_RETURN, v, 0)
       IN  /\ Deliver("yield", frame, res)
           /\ fhist' = [fhist EXCEPT ![f] =
                  [@ EXCEPT !.n = @ + 1,
                            !.yvals = IF Tracked(f) THEN @ \cup {v} ELSE @,
                            !.fail = FailAfter(f, res)]]
    /\ fstate' = [fstate EXCEPT ![f] = "suspended"]
    /\ stack' = Pop(stack)
    /\ UNCHANGED <<fcode, flocals>>

(* a suspended generator frame is resumed by next()/send(), or by          *)
(* throw()/close(): a call event with f_lasti still at the YIELD_VALUE     *)
ResumeEvent(f, throw, r) ==
    /\ fstate[f] = "suspended"
    /\ LET frame == Frame(f, fcode[f], flocals[f], YIELD_VALUE_OPCODE)
           res == HookCall(frame, EVENT_CALL, "None", r)
       IN  /\ Deliver("resume", frame, res)
           /\ fhist' = [fhist EXCEPT ![f].fail = FailAfter(f, res)]
    /\ fstate' = [fstate EXCEPT ![f] = IF throw THEN "throwing" ELSE "running"]
    /\ stack' = Append(stack, f)
    /\ UNCHANGED <<fcode, flocals>>

(* the executing frame executes RETURN_VALUE with value v *)
ReturnEvent(f, v) ==
    /\ Executing(f)
    /\ ~InOpenScope
    /\ LET frame == Frame(f, fcode[f], flocals[f], RETURN_VALUE_OPCODE)
           res == HookCall(frame, EVENT_RETURN, v, 0)
       IN  /\ Deliver("return", frame, res)
           /\ fhist' = Ended(f, "return", v, res)
    /\ fstate' = [fstate EXCEPT ![f] = "done"]
    /\ stack' = Pop(stack)
    /\ UNCHANGED <<fcode, flocals>>

(* an exception raised by an instruction of the executing frame propagates *)
(* out of it: a return event with arg None                                 *)
RaiseEvent(f) ==
    /\ Executing(f)
    /\ ~InOpenScope
    /\ fstate[f] = "running"
    /\ LET frame == Frame(f, fcode[f], flocals[f], OPCODE_RAISE)
           res == HookCall(frame, EVENT_RETURN, "None", 0)
       IN  /\ Deliver("raise", frame, res)
           /\ fhist' = Ended(f, "exception", "None", res)
    /\ fstate' = [fstate EXCEPT ![f] = "done"]
    /\ stack' = Pop(stack)
    /\ UNCHANGED <<fcode, flocals>>

(* the exception thrown into a suspended generator is not handled by it:   *)
(* a return event with arg None and f_lasti still at the YIELD_VALUE       *)
UnwindAtYield(f) ==
    /\ Executing(f)
    /\ ~InOpenScope
    /\ fstate[f] = "throwing"
    /\ LET frame == Frame(f, fcode[f], flocals[f], YIELD_VALUE_OPCODE)
           res == HookCall(frame, EVENT_RETURN, "None", 0)
       IN  /\ Deliver("unwind", frame, res)
           /\ fhist' = Ended(f, "exception", "None", res)
    /\ fstate' = [fstate EXCEPT ![f] = "done"]
    /\ stack' = Pop(stack)
    /\ UNCHANGED <<fcode, flocals>>

(* the executing frame calls a builtin: a c_call event *)
CCallEvent(f) ==
    /\ Executing(f)
    /\ profile # NoHook
    /\ LET frame == Frame(f, fcode[f], flocals[f], "CALL_FUNCTION")
           res == HookCall(frame, "c_call", "None", 0)
       IN  /\ traces' = [traces EXCEPT ![profile] = res.s.traces]
           /\ cache' = [cache EXCEPT ![profile] = res.s.cache]
           /\ logged' = [logged EXCEPT ![profile] = res.s.logged]
           /\ profile' = IF res.ret = "raised" THEN NoHook ELSE profile
    /\ UNCHANGED <<config, scopes, tstate, should_trace, sample_rate, flushed,
                   stack, fstate, fcode, flocals, fhist, last>>
    /\ UNCHANGED libVars

(* ---- monkeytype.trace(config) and trace_calls ---- *)
(* a trace_calls that flushes after the yield instead of in a finally *)
scope_exit_without_finally(old_trace, how) ==
    [profile |-> old_trace, flushes |-> IF how = "raise" THEN 0 ELSE 1,
     hook_at_flush |-> old_trace]

(* a trace_calls that leaves its tracer installed *)
scope_exit_keeps_hook(old_trace, how) ==
    [profile |-> profile, flushes |-> 1, hook_at_flush |-> profile]

(* a trace_calls that flushes before it sets the hook back *)
scope_exit_flush_first(old_trace, how) ==
    [profile |-> old_trace, flushes |-> 1, hook_at_flush |-> profile]

(* the finally block: the hook to install, the number of flush() calls and *)
(* the hook that is installed while flush() runs                           *)
scope_exit(old_trace, how) ==
    [profile |-> old_trace, flushes |-> 1, hook_at_flush |-> old_trace]

(* the executing code (a frame, or the module when the stack is empty)     *)
(* enters a with-statement                                                 *)
EnterScope(t) ==
    /\ tstate[t] = "unused"
    /\ IF t = 1 THEN TRUE ELSE tstate[t - 1] # "unused"
    /\ scopes' = Append(scopes, [tracer |-> t, old_trace |-> profile, depth |-> Len(stack)])
    /\ profile' = t
    /\ tstate' = [tstate EXCEPT ![t] = "active"]
    /\ should_trace' = [should_trace EXCEPT ![t] = config.code_filter]
    /\ sample_rate' = [sample_rate EXCEPT ![t] = config.sample_rate]
    /\ last' = [op |-> "enter", t |-> t, f |-> 0, path |-> "none", ret |-> "none",
                hook |-> profile]
    /\ UNCHANGED <<config, traces, cache, logged, flushed, stack, fstate, fcode, flocals, fhist>>
    /\ UNCHANGED libVars

(* the with-block ends, normally or by an exception of its body *)
ExitScope(how) ==
    /\ InOpenScope
    /\ LET top == scopes[Len(scopes)]
           fin == scope_exit(top.old_trace, how)
       IN  /\ profile' = fin.profile
           /\ flushed' = [flushed EXCEPT ![top.tracer] = @ + fin.flushes]
           /\ tstate' = [tstate EXCEPT ![top.tracer] = "exited"]
           /\ last' = [op |-> "exit", t |-> top.tracer, f |-> 0, path |-> how, ret |-> "none",
                       hook |-> fin.hook_at_flush]
    /\ scopes' = Pop(scopes)
    /\ UNCHANGED <<config, should_trace, sample_rate, traces, cache, logged,
                   stack, fstate, fcode, flocals, fhist>>
    /\ UNCHANGED libVars

ReturnValues == {"None", "i", "bad"}
YieldValues == {"i", "s", "bad"}

(* no scope has been opened yet *)
NoScopeYet == \A u \in Tracers : tstate[u] = "unused"

(* no frame has been called yet *)
NoFrameYet == \A g \in Frames : fstate[g] = "new"

(* Calls, generators and one trace_calls scope. *)
Next ==
    \/ \E f \in Frames, code \in Codes : \E locals \in EntryLocals(code), r \in RandRange :
           CallEvent(f, code, locals, r)
    \/ \E f \in Frames, v \in YieldValues : YieldEvent(f, v)
    \/ \E f \in Frames, throw \in BOOLEAN, r \in RandRange : ResumeEvent(f, throw, r)
    \/ \E f \in Frames, v \in ReturnValues : ReturnEvent(f, v)
    \/ \E f \in Frames : RaiseEvent(f)
    \/ \E f \in Frames : UnwindAtYield(f)
    \/ \E f \in Frames : CCallEvent(f)
    \/ \E t \in Tracers : NoScopeYet /\ EnterScope(t)
    \/ \E how \in {"normal", "raise"} : ExitScope(how)

Spec == Init /\ [][Next]_vars

(* Scopes opened one after another or nested, around one call. *)
NextScopes ==
    \/ \E f \in Frames, code \in Codes : \E locals \in EntryLocals(code), r \in RandRange :
           NoFrameYet /\ CallEvent(f, code, locals, r)
    \/ \E f \in Frames, v \in YieldValues : YieldEvent(f, v)
    \/ \E f \in Frames, throw \in BOOLEAN, r \in RandRange : ResumeEvent(f, throw, r)
    \/ \E f \in Frames, v \in ReturnValues : ReturnEvent(f, v)
    \/ \E f \in Frames : RaiseEvent(f)
    \/ \E f \in Frames : UnwindAtYield(f)
    \/ \E f \in Frames : CCallEvent(f)
    \/ \E t \in Tracers : EnterScope(t)
    \/ \E how \in {"normal", "raise"} : ExitScope(how)

SpecScopes == Init /\ [][NextScopes]_vars

(* Calls of two functions, one of them a generator, inside and outside of  *)
(* scopes opened one after another or nested.                              *)
NestedCodes == {"squares", "local_method", "local_square"}

NextNested ==
    \/ \E f \in Frames, code \in NestedCodes : \E locals \in EntryLocals(code), r \in RandRange :
           CallEvent(f, code, locals, r)
    \/ \E f \in Frames, v \in {"i"} : YieldEvent(f, v)
    \/ \E f \in Frames, throw \in BOOLEAN, r \in RandRange : ResumeEvent(f, throw, r)
    \/ \E f \in Frames, v \in {"i"} : ReturnEvent(f, v)
    \/ \E f \in Frames : RaiseEvent(f)
    \/ \E f \in Frames : UnwindAtYield(f)
    \/ \E f \in Frames : CCallEvent(f)
    \/ \E t \in Tracers : EnterScope(t)
    \/ \E how \in {"normal", "raise"} : ExitScope(how)

SpecNested == Init /\ [][NextNested]_vars

(* ---- monkeytype.typing: calls of the type functions ---- *)
(* an anonymous TypedDict (a record shape): its fields, each with its type *)
(* and whether it is required                                              *)
Field(name, typ, required) ==
    Generic(name, <<typ, {Class(IF required THEN "required" ELSE "optional")}>>)

TypedDictOf(fields) == {Generic("TypedDict", <<fields>>)}

(* the types the functions are called with *)
T_int == {Class("int")}
T_str == {Class("str")}
T_NoneType == {Class("NoneType")}
T_ab == TypedDictOf({Field("a", T_int, TRUE), Field("b", T_int, TRUE)})
T_a == TypedDictOf({Field("a", T_int, TRUE)})

BaseTypes ==
    {T_int, T_str, T_NoneType, Union(T_int, T_NoneType),
     {Generic("List", <<T_int>>)}, T_ab, T_a}

(* the tuples of at most n elements of S *)
SeqsUpTo(S, n) == UNION {[1..k -> S] : k \in 0..n}

TypeSeqs == SeqsUpTo(BaseTypes, MaxTypes)

(* the size budgets (max_typed_dict_size) a caller can ask for *)
Budgets == 0..MaxBudget

(* the tracing machinery at rest while a library function is called *)
TracerIdle ==
    TracerInit /\ config = [code_filter |-> "None", sample_rate |-> 0]

Pending(fn, arg) == [fn |-> fn, arg |-> arg, res |-> <<>>, done |-> FALSE]

(* the pending call returns res *)
Return(res) ==
    /\ call' = [call EXCEPT !.res = res, !.done = TRUE]
    /\ UNCHANGED tracingVars
    /\ UNCHANGED storeVars

ShrinkTypes ==
    /\ call.fn = "shrink_types" /\ ~call.done
    /\ Return(shrink_types(call.arg))

(* the objects get_type is called with *)
GetTypeObjects ==
    DictObjects \cup ListObjects \cup SetObjects \cup TupleObjects \cup TypeObjects
        \cup CallableObjects \cup GeneratorObjects \cup {"None", "i", "s", "obj_GetFuncHelper"}

GetType ==
    /\ call.fn = "get_type" /\ ~call.done
    /\ Return(get_type(call.arg))

(* the code objects whose frames get_func is called with: those of module  *)
(* functions and those of the methods of GetFuncHelper                     *)
MethodCodes == {"an_instance_method", "a_static_method", "a_class_method", "a_property",
                "a_cached_property", "a_settable_property", "shared"}

GetFuncFrames ==
    UNION {{Frame(1, code, locals, OPCODE_ENTRY) : locals \in EntryLocals(code)} :
              code \in Codes \cup MethodCodes}

(* a CallTracer that has handled no event *)
FreshTracer == [traces |-> EmptyDict, cache |-> EmptyDict, logged |-> <<>>]

(* get_func(frame), and the first call event of the frame handled by a     *)
(* fresh CallTracer without sampling                                       *)
GetFunc ==
    /\ call.fn = "get_func" /\ ~call.done
    /\ Return([func |-> get_func(call.arg),
               handled |-> handle_call(FreshTracer, 0, call.arg, 0)])

(* ---- monkeytype.stubs.shrink_traced_types ---- *)
(* tuple(s) of a Python set s: its elements in some order *)
SetToSeq(S) ==
    CHOOSE f \in [1..Cardinality(S) -> S] : {f[i] : i \in 1..Cardinality(S)} = S

(* how a call ends: it raises, or it returns a value *)
Raised == [raised |-> TRUE, value |-> NoType]
Returned(v) == [raised |-> FALSE, value |-> v]

(* typing.shrink_types called with the positional arguments args: it is    *)
(* declared with the single parameter types, so that a call with another   *)
(* number of arguments raises TypeError before its body runs               *)
call_shrink_types(args) ==
    IF Len(args) = 1 THEN Returned(shrink_types(args[1])) ELSE Raised

(* the types seen for parameter name in the records that contain it, and   *)
(* the return and yield types of the records that have one                 *)
arg_types_of(call_traces, name) ==
    {call_traces[i].arg_types[name] :
        i \in {j \in DOMAIN call_traces : name \in DOMAIN call_traces[j].arg_types}}
return_types_of(call_traces) == {call_traces[i].return_type : i \in DOMAIN call_traces} \ {NoType}
yield_types_of(call_traces) == {call_traces[i].yield_type : i \in DOMAIN call_traces} \ {NoType}
arg_names_of(call_traces) == UNION {DOMAIN call_traces[i].arg_types : i \in DOMAIN call_traces}

(* stubs.shrink_traced_types: the triple (argument types, return type,     *)
(* yield type); it raises when one of its calls of shrink_types raises     *)
shrink_traced_types(call_traces, max_typed_dict_size) ==
    LET shrunken(ts) == call_shrink_types(<<SetToSeq(ts), max_typed_dict_size>>)
        names == arg_names_of(call_traces)
        return_types == return_types_of(call_traces)
        yield_types == yield_types_of(call_traces)
        calls == {shrunken(arg_types_of(call_traces, n)) : n \in names}
                    \cup (IF return_types # {} THEN {shrunken(return_types)} ELSE {})
                    \cup (IF yield_types # {} THEN {shrunken(yield_types)} ELSE {})
    IN  IF \E c \in calls : c.raised
        THEN Raised
        ELSE Returned(<<[n \in names |-> shrunken(arg_types_of(call_traces, n)).value],
                        IF return_types # {} THEN shrunken(return_types).value ELSE NoType,
                        IF yield_types # {} THEN shrunken(yield_types).value ELSE NoType>>)

MaxTraces == 2

(* the records of one callable that shrink_traced_types is called with *)
NoArgs == [n \in {} |-> NoType]
TracedArgTypes ==
    {NoArgs, [a |-> T_str, b |-> T_int], [a |-> T_str, b |-> T_NoneType], [a |-> T_int]}
TracedCalls ==
    {[CallTrace("tie_helper", at) EXCEPT !.return_type = rt, !.yield_type = yt] :
        at \in TracedArgTypes, rt \in {NoType, T_NoneType, T_str}, yt \in {NoType, T_int, T_str}}
TraceSeqs == SeqsUpTo(TracedCalls, MaxTraces)

ShrinkTracedTypes ==
    /\ call.fn = "shrink_traced_types" /\ ~call.done
    /\ Return(shrink_traced_types(call.arg.traces, call.arg.max_typed_dict_size))

(* ---- monkeytype.typing: type rewriters ---- *)
(* the one member of a type that is not a Union *)
TermOf(typ) == CHOOSE term \in typ : TRUE

is_any(typ) == typ = AnyType
is_union(typ) == Cardinality(typ) > 1
(* the aliases of module typing that get_type builds types from *)
TypingGenerics == {"Dict", "List", "Set", "Tuple", "Type", "Iterator", "Callable", "Generator"}

is_generic(typ) == Cardinality(typ) = 1 /\ TermOf(typ).origin \in TypingGenerics
is_generic_of(typ, gen) == is_generic(typ) /\ TermOf(typ).origin = gen
name_of_generic(typ) == TermOf(typ).origin

(* union.__args__: the members of a Union *)
UnionArgs(union) == {{term} : term \in union}

(* the rewriters: their class and, for RewriteLargeUnion, max_union_len *)
Rewriter(cls, max_union_len) == [cls |-> cls, max_union_len |-> max_union_len]

(* the generics TypeRewriter has a rewrite method for *)
RewrittenContainers == {"Dict", "List", "Set", "Tuple"}

(* RemoveEmptyContainers._is_empty: typ has type arguments, all of them Any *)
_is_empty(typ) ==
    /\ Cardinality(typ) = 1
    /\ Len(TermOf(typ).args) > 0
    /\ \A i \in DOMAIN TermOf(typ).args : is_any(TermOf(typ).args[i])

RECURSIVE rewrite(_, _)
RECURSIVE RewriteLargeUnion_rewrite_Union(_, _)

(* TypeRewriter._rewrite_container for Dict, List, Set and Tuple *)
_rewrite_container(self, container) ==
    LET term == TermOf(container)
    IN  {Generic(term.origin, [i \in DOMAIN term.args |-> rewrite(self, term.args[i])])}

(* a RemoveEmptyContainers.rewrite_Union that drops an empty container     *)
(* only next to a non-empty container of the same kind                     *)
RemoveEmptyContainers_rewrite_Union_same_kind(self, union) ==
    LET redundant(e) ==
            /\ _is_empty(e)
            /\ \E o \in UnionArgs(union) :
                   ~_is_empty(o) /\ is_generic(o) /\ name_of_generic(o) = name_of_generic(e)
        elems == {rewrite(self, e) : e \in {m \in UnionArgs(union) : ~redundant(m)}}
    IN  UNION elems

(* RemoveEmptyContainers.rewrite_Union *)
RemoveEmptyContainers_rewrite_Union(self, union) ==
    LET elems == {rewrite(self, e) : e \in {m \in UnionArgs(union) : ~_is_empty(m)}}
    IN  IF elems # {} THEN UNION elems ELSE union

(* TypeRewriter.rewrite_Union: the members rewritten *)
TypeRewriter_rewrite_Union(self, union) ==
    UNION {rewrite(self, e) : e \in UnionArgs(union)}

(* RewriteConfigDict.rewrite_Union: the union itself unless every member   *)
(* is a Dict with the key type of the first one                            *)
RewriteConfigDict_rewrite_Union(self, union) ==
    LET key_types == {TermOf(e).args[1] : e \in {m \in UnionArgs(union) : is_generic_of(m, "Dict")}}
        value_types == {TermOf(e).args[2] : e \in UnionArgs(union)}
    IN  IF \E e \in UnionArgs(union) : ~is_generic_of(e, "Dict") THEN union
        ELSE IF Cardinality(key_types) # 1 THEN union
        ELSE {Generic("Dict", <<CHOOSE k \in key_types : TRUE, UNION value_types>>)}

(* RewriteLargeUnion.rewrite_Union of a type: what it returns for the      *)
(* members of the union, NoType when it raises                             *)
RewriteLargeUnion_rewrite(self, union) ==
    LET out == RewriteLargeUnion_rewrite_Union(self, SetToSeq(UnionArgs(union)))
    IN  IF out.raised THEN NoType ELSE out.value

(* RewriteGenerator.rewrite_Generator *)
rewrite_Generator(self, typ) ==
    LET args == TermOf(typ).args
    IN  IF args[2] = {Class("NoneType")} /\ args[3] = {Class("NoneType")}
        THEN {Generic("Iterator", <<args[1]>>)}
        ELSE typ

(* TypeRewriter.rewrite: the rewrite_<name> method of the rewriter's class *)
(* if it has one, else generic_rewrite                                     *)
rewrite(self, typ) ==
    IF is_any(typ) THEN typ
    ELSE IF is_union(typ)
    THEN CASE self.cls = "RemoveEmptyContainers" -> RemoveEmptyContainers_rewrite_Union(self, typ)
           [] self.cls = "RewriteConfigDict" -> RewriteConfigDict_rewrite_Union(self, typ)
           [] self.cls = "RewriteLargeUnion" -> RewriteLargeUnion_rewrite(self, typ)
           [] OTHER -> TypeRewriter_rewrite_Union(self, typ)
    ELSE IF is_generic(typ) /\ name_of_generic(typ) \in RewrittenContainers
    THEN _rewrite_container(self, typ)
    ELSE IF is_generic(typ) /\ name_of_generic(typ) = "Generator"
            /\ self.cls = "RewriteGenerator"
    THEN rewrite_Generator(self, typ)
    ELSE typ

MaxMembers == 3

(* the members of the unions RemoveEmptyContainers is given *)
T_SetAny == {Generic("Set", <<AnyType>>)}
T_SetInt == {Generic("Set", <<T_int>>)}
T_ListAny == {Generic("List", <<AnyType>>)}
T_ListStr == {Generic("List", <<T_str>>)}
T_DictAny == {Generic("Dict", <<AnyType, AnyType>>)}
T_DictIntStr == {Generic("Dict", <<T_int, T_str>>)}
T_DictOfLists == {Generic("Dict", <<T_str, Union(T_ListStr, T_ListAny)>>)}
UnionMembers ==
    {T_SetAny, T_SetInt, T_ListAny, T_ListStr, T_DictAny, T_DictIntStr, T_DictOfLists,
     T_str, T_int}

(* the types made of one to MaxMembers of them *)
RewrittenTypes ==
    {UNION ms : ms \in {s \in SUBSET UnionMembers : Cardinality(s) \in 1..MaxMembers}}

RemoveEmptyContainers == Rewriter("RemoveEmptyContainers", 0)

(* the other rewriters of DEFAULT_REWRITER, RewriteLargeUnion with a       *)
(* max_union_len of 2, and the members of the unions they are given:       *)
(* containers that hold a union of three classes, a union of Dicts with    *)
(* one key type, and a Generator that neither is sent to nor returns       *)
ChainRewriters ==
    {Rewriter("RewriteConfigDict", 0), Rewriter("RewriteLargeUnion", 2),
     Rewriter("RewriteGenerator", 0)}
T_A == {Class("A")}
T_DictStrInt == {Generic("Dict", <<T_str, T_int>>)}
T_DictStrStr == {Generic("Dict", <<T_str, T_str>>)}
T_Generator == {Generic("Generator", <<T_int, T_NoneType, T_NoneType>>)}
T_ListOfUnion3 == {Generic("List", <<UNION {T_int, T_str, T_A}>>)}
T_ListOfDicts == {Generic("List", <<Union(T_DictStrInt, T_DictStrStr)>>)}
T_SetOfGenerator == {Generic("Set", <<T_Generator>>)}
NestedMembers ==
    {T_int, T_str, T_A, T_DictStrInt, T_DictStrStr, T_Generator,
     T_ListOfUnion3, T_ListOfDicts, T_SetOfGenerator}
NestedTypes ==
    {UNION ms : ms \in {s \in SUBSET NestedMembers : Cardinality(s) \in 1..MaxMembers}}

Rewrite ==
    /\ call.fn = "rewrite" /\ ~call.done
    /\ Return(rewrite(call.arg.self, call.arg.typ))

(* ---- monkeytype.typing.RewriteLargeUnion ---- *)
(* the classes of the test hierarchy and their base class                  *)
(*          A                                                              *)
(*        B   C                                                            *)
(*       D E F G                                                           *)
Classes == {"A", "B", "C", "D", "E", "F", "G", "int", "str", "object"}
base_of(cls) ==
    CASE cls \in {"B", "C"} -> "A"
      [] cls \in {"D", "E"} -> "B"
      [] cls \in {"F", "G"} -> "C"
      [] OTHER -> "object"

(* inspect.getmro(cls): the class and its ancestors, nearest first *)
RECURSIVE getmro(_)
getmro(cls) == IF cls = "object" THEN <<"object">> ELSE <<cls>> \o getmro(base_of(cls))

(* typ is a class of the hierarchy, not an alias of module typing *)
is_class(typ) == Cardinality(typ) = 1 /\ TermOf(typ).origin \in Classes
issubclass(typ, ancestor) ==
    is_class(typ) /\ \E i \in DOMAIN getmro(TermOf(typ).origin) :
                         getmro(TermOf(typ).origin)[i] = ancestor

(* Tuple[value_type, ...] *)
VariadicTuple(value_type) == {Generic("Tuple", <<value_type, {Class("...")}>>)}

(* RewriteLargeUnion._rewrite_to_tuple from member i on: None (NoType) at  *)
(* the first member that is no Tuple or has an element of another type     *)
(* than value_type; t.__args__[0] raises for the bare Tuple, which has no  *)
(* type arguments (TypeError, IndexError or AttributeError, by version)    *)
RECURSIVE _rewrite_to_tuple_from(_, _, _)
_rewrite_to_tuple_from(args, i, value_type) ==
    IF i > Len(args) THEN Returned(VariadicTuple(value_type))
    ELSE LET t == args[i] IN
         IF ~is_generic_of(t, "Tuple") THEN Returned(NoType)
         ELSE IF Len(TermOf(t).args) = 0 THEN Raised
         ELSE LET vt == IF value_type = NoType THEN TermOf(t).args[1] ELSE value_type
              IN  IF \E k \in DOMAIN TermOf(t).args : TermOf(t).args[k] # vt
                  THEN Returned(NoType)
                  ELSE _rewrite_to_tuple_from(args, i + 1, vt)

(* a _rewrite_to_tuple that looks at the first member only *)
_rewrite_to_tuple_of_first(args) ==
    IF is_generic_of(args[1], "Tuple") /\ Len(TermOf(args[1]).args) > 0
    THEN Returned(VariadicTuple(TermOf(args[1]).args[1]))
    ELSE Returned(NoType)

_rewrite_to_tuple(args) == _rewrite_to_tuple_from(args, 1, NoType)

(* the first class of mro from position i on that is not object and that   *)
(* every member is a subclass of, else Any                                 *)
RECURSIVE first_common_ancestor(_, _, _)
first_common_ancestor(mro, i, args) ==
    IF i > Len(mro) THEN AnyType
    ELSE IF mro[i] # "object" /\ \A k \in DOMAIN args : issubclass(args[k], mro[i])
         THEN {Class(mro[i])}
         ELSE first_common_ancestor(mro, i + 1, args)

(* RewriteLargeUnion.rewrite_Union of Union[args]. inspect.getmro of a     *)
(* first member that is no class and issubclass of a member that is no     *)
(* class raise AttributeError or TypeError, which are caught: the result   *)
(* is Any, as it is when no ancestor is found                              *)
RewriteLargeUnion_rewrite_Union(self, args) ==
    IF Len(args) <= self.max_union_len THEN Returned(UnionOf(args))
    ELSE LET rw_union == _rewrite_to_tuple(args) IN
         IF rw_union.raised THEN Raised
         ELSE IF rw_union.value # NoType THEN rw_union
         ELSE IF is_class(args[1])
         THEN Returned(first_common_ancestor(getmro(TermOf(args[1]).origin), 1, args))
         ELSE Returned(AnyType)

(* the members of the unions RewriteLargeUnion is given; the bare Tuple is *)
(* get_type of the empty tuple                                             *)
T_Tuple == {Class("Tuple")}
TupleOf(elems) == {Generic("Tuple", elems)}
LargeUnionMembers ==
    {{Class(c)} : c \in {"A", "B", "D", "E", "F", "int", "str"}}
        \cup {TupleOf(<<T_int>>), TupleOf(<<T_int, T_int>>), TupleOf(<<T_int, T_str>>),
              TupleOf(<<{Class("F")}>>), TupleOf(<<{Class("F")}, {Class("F")}>>),
              T_Tuple, T_ListAny}

(* Union[...].__args__: two to MaxMembers different members, in order *)
LargeUnionArgs ==
    {args \in SeqsUpTo(LargeUnionMembers, MaxMembers) :
        Len(args) >= 2 /\ \A i, j \in DOMAIN args : i # j => args[i] # args[j]}

MaxUnionLens == {1, 2}

(* RewriteLargeUnion(max_union_len).rewrite(Union[args]): rewrite finds    *)
(* the type to be a Union and returns rewrite_Union of it                  *)
RewriteLargeUnion ==
    /\ call.fn = "RewriteLargeUnion.rewrite" /\ ~call.done
    /\ Return(RewriteLargeUnion_rewrite_Union(call.arg.self, call.arg.args))

InitTypes ==
    /\ TracerIdle
    /\ StoreInit
    /\ \/ \E ts \in TypeSeqs : call = Pending("shrink_types", ts)
       \/ \E obj \in GetTypeObjects : call = Pending("get_type", obj)
       \/ \E frame \in GetFuncFrames : call = Pending("get_func", frame)
       \/ \E trs \in TraceSeqs, b \in Budgets :
              call = Pending("shrink_traced_types", [traces |-> trs, max_typed_dict_size |-> b])
       \/ \E typ \in RewrittenTypes :
              call = Pending("rewrite", [self |-> RemoveEmptyContainers, typ |-> typ])
       \/ \E typ \in NestedTypes, rw \in ChainRewriters :
              call = Pending("rewrite", [self |-> rw, typ |-> typ])
       \/ \E args \in LargeUnionArgs, max \in MaxUnionLens :
              call = Pending("RewriteLargeUnion.rewrite",
                             [self |-> Rewriter("RewriteLargeUnion", max), args |-> args])

NextTypes ==
    \/ ShrinkTypes
    \/ GetType
    \/ GetFunc
    \/ ShrinkTracedTypes
    \/ Rewrite
    \/ RewriteLargeUnion

SpecTypes == InitTypes /\ [][NextTypes]_vars

(* ---- monkeytype.encoding: traces to rows ---- *)
(* Python's None where a string is optional *)
NoneStr == "None"

(* json.dumps of a string, and of the items of a list or dict *)
json_string(s) == "\"" \o s \o "\""
RECURSIVE json_join(_)
json_join(items) ==
    IF Len(items) = 0 THEN ""
    ELSE IF Len(items) = 1 THEN items[1]
    ELSE items[1] \o ", " \o json_join(Tail(items))

(* typ.__module__ *)
module_of(origin) ==
    IF origin \in {"int", "str", "NoneType"} THEN "builtins"
    ELSE IF origin \in TypingGenerics \cup {"Any", "Union"} THEN "typing"
    ELSE "tests.test_typing"

(* type_to_json: json.dumps(type_to_dict(typ), sort_keys=True) of a type   *)
(* that is no record shape; the members of a Union are encoded in the      *)
(* order of its __args__                                                   *)
RECURSIVE type_to_json(_)
type_to_json(typ) ==
    LET qualname == IF is_union(typ) THEN "Union" ELSE TermOf(typ).origin
        elem_types == IF is_union(typ) THEN SetToSeq(UnionArgs(typ)) ELSE TermOf(typ).args
        elems == IF Len(elem_types) > 0 /\ (is_union(typ) \/ is_generic(typ))
                 THEN json_string("elem_types") \o ": ["
                          \o json_join([i \in DOMAIN elem_types |-> type_to_json(elem_types[i])])
                          \o "], "
                 ELSE ""
    IN  "{" \o elems \o json_string("module") \o ": " \o json_string(module_of(qualname))
            \o ", " \o json_string("qualname") \o ": " \o json_string(qualname) \o "}"

(* the argument names, sorted *)
SortedNames == <<"a", "b">>

(* arg_types_to_json: json.dumps({name: type_to_dict(typ)}, sort_keys=True) *)
arg_types_to_json(arg_types) ==
    LET names == SelectSeq(SortedNames, LAMBDA n : n \in DOMAIN arg_types)
    IN  "{" \o json_join([i \in DOMAIN names |->
                             json_string(names[i]) \o ": " \o type_to_json(arg_types[names[i]])])
            \o "}"

maybe_encode_type(typ) == IF typ = NoType THEN NoneStr ELSE type_to_json(typ)

CallTraceRow(module, qualname, arg_types, return_type, yield_type) ==
    [module |-> module, qualname |-> qualname, arg_types |-> arg_types,
     return_type |-> return_type, yield_type |-> yield_type]

(* a function object with its __module__ and __qualname__, and an object   *)
(* that is no function: object() has no __qualname__                       *)
Function(module, qualname) == [__module__ |-> module, __qualname__ |-> qualname]
NotAFunction == [__module__ |-> "builtins"]

(* CallTraceRow.from_trace: reading trace.func.__qualname__ raises         *)
(* AttributeError for an object without it                                 *)
from_trace(trace) ==
    IF "__qualname__" \notin DOMAIN trace.func
    THEN Raised
    ELSE Returned(CallTraceRow(trace.func.__module__, trace.func.__qualname__,
                               arg_types_to_json(trace.arg_types),
                               maybe_encode_type(trace.return_type),
                               maybe_encode_type(trace.yield_type)))

(* a serialize_traces that gives up at the first trace it cannot serialize *)
RECURSIVE serialize_traces_until_failure(_)
serialize_traces_until_failure(trs) ==
    IF Len(trs) = 0 THEN [rows |-> <<>>, log |-> <<>>]
    ELSE IF from_trace(Head(trs)).raised
    THEN [rows |-> <<>>, log |-> <<"Failed to serialize trace">>]
    ELSE LET rest == serialize_traces_until_failure(Tail(trs))
         IN  [rest EXCEPT !.rows = <<from_trace(Head(trs)).value>> \o @]

(* serialize_traces, run to its end: the rows it yields and the messages   *)
(* it logs, in order                                                       *)
RECURSIVE serialize_traces(_)
serialize_traces(trs) ==
    IF Len(trs) = 0 THEN [rows |-> <<>>, log |-> <<>>]
    ELSE LET row == from_trace(Head(trs))
             rest == serialize_traces(Tail(trs))
         IN  IF row.raised
             THEN [rest EXCEPT !.log = <<"Failed to serialize trace">> \o @]
             ELSE [rest EXCEPT !.rows = <<row.value>> \o @]

(* ---- monkeytype.db.sqlite.SQLiteStore ---- *)
(* SELECT id ... fetchone(): the first of the ids of the rows that match,  *)
(* 0 for None when there is none                                           *)
SelectId(ids) ==
    IF ids # {} THEN CHOOSE i \in ids : \A j \in ids : i <= j ELSE 0

(* INSERT ... RETURNING id: the store with the row and the row's id *)
Inserted(d, table, row) ==
    [db |-> [d EXCEPT ![table] = Append(@, row)], id |-> Len(d[table]) + 1]

get_signature(d, arg_types, return_type, yield_type) ==
    SelectId({i \in DOMAIN d.monkeytype_signatures :
                 /\ d.monkeytype_signatures[i].arg_types = arg_types
                 /\ d.monkeytype_signatures[i].return_type = return_type
                 /\ d.monkeytype_signatures[i].yield_type = yield_type})

get_or_add_signature(d, arg_types, return_type, yield_type) ==
    LET signature == get_signature(d, arg_types, return_type, yield_type)
    IN  IF signature # 0 THEN [db |-> d, id |-> signature]
        ELSE Inserted(d, "monkeytype_signatures",
                      [arg_types |-> arg_types, return_type |-> return_type,
                       yield_type |-> yield_type])

get_module(d, name) ==
    SelectId({i \in DOMAIN d.monkeytype_modules : d.monkeytype_modules[i] = name})

get_or_add_module(d, name) ==
    LET module == get_module(d, name)
    IN  IF module # 0 THEN [db |-> d, id |-> module]
        ELSE Inserted(d, "monkeytype_modules", name)

get_function(d, qualname) ==
    SelectId({i \in DOMAIN d.monkeytype_functions :
                 d.monkeytype_functions[i].qualname = qualname})

(* INSERT ... ON CONFLICT(function_id, signature_id) DO NOTHING *)
add_signature_to_function(d, function, signature) ==
    [d EXCEPT !.monkeytype_functions_signatures = @ \cup {<<function, signature>>}]

get_or_add_function(d, trace) ==
    LET func == get_function(d, trace.qualname)
    IN  IF func # 0 THEN [db |-> d, id |-> func]
        ELSE LET module == get_or_add_module(d, trace.module)
                 new == Inserted(module.db, "monkeytype_functions",
                                 [qualname |-> trace.qualname, module_id |-> module.id])
                 signature == get_or_add_signature(new.db, trace.arg_types,
                                                   trace.return_type, trace.yield_type)
             IN  [db |-> add_signature_to_function(signature.db, new.id, signature.id),
                  id |-> new.id]

add_trace(d, trace) ==
    LET func == get_or_add_function(d, trace)
        signature == get_or_add_signature(func.db, trace.arg_types,
                                          trace.return_type, trace.yield_type)
    IN  add_signature_to_function(signature.db, func.id, signature.id)

(* the loop of SQLiteStore.add over the rows of serialize_traces *)
RECURSIVE add_rows(_, _)
add_rows(d, rows) ==
    IF Len(rows) = 0 THEN d ELSE add_rows(add_trace(d, Head(rows)), Tail(rows))

add(d, trs) == add_rows(d, serialize_traces(trs).rows)

(* func.qualname LIKE prefix || '%' for the qualified names of the model *)
StartsWith(qualname, prefix) ==
    \/ prefix = qualname
    \/ prefix = "func" /\ qualname = "func2"

(* the row SQLiteStore.filter makes of a matching function and signature *)
FilteredRow(d, link) ==
    LET func == d.monkeytype_functions[link[1]]
        sig == d.monkeytype_signatures[link[2]]
    IN  CallTraceRow(d.monkeytype_modules[func.module_id], func.qualname,
                     sig.arg_types, sig.return_type, sig.yield_type)

(* the rows of the join that satisfy the WHERE clause of SQLiteStore.filter *)
Matching(d, name, qualname_prefix) ==
    {link \in d.monkeytype_functions_signatures :
        LET func == d.monkeytype_functions[link[1]]
        IN  /\ d.monkeytype_modules[func.module_id] = name
            /\ qualname_prefix # NoneStr => StartsWith(func.qualname, qualname_prefix)}

MaxAdded == 3

(* the functions and traces the store is given: func and func2 of one      *)
(* module, a function func of another module, and an object that cannot be *)
(* serialized                                                              *)
StoredFunctions ==
    {Function("tests.db.test_sqlite", "func"), Function("tests.db.test_sqlite", "func2"),
     Function("tests.test_cli", "func"), NotAFunction}
StoredTraces ==
    {[CallTrace(f, at) EXCEPT !.return_type = rt] :
        f \in StoredFunctions,
        at \in {[a |-> T_int, b |-> T_str], [a |-> T_int, b |-> T_int]},
        rt \in {NoType}}
StoredModules == {"tests.db.test_sqlite", "tests.test_cli"}

DefaultLimit == 2000

(* SQLiteStore.add(trs) *)
Add(trs) ==
    /\ Cardinality(added \cup {trs[i] : i \in DOMAIN trs}) <= MaxAdded
    /\ db' = add(db, trs)
    /\ added' = added \cup {trs[i] : i \in DOMAIN trs}
    /\ call' = [fn |-> "add", arg |-> trs, res |-> <<>>, done |-> TRUE]
    /\ UNCHANGED tracingVars
    /\ UNCHANGED loggerVars

(* SQLiteStore.filter(name, qualname_prefix, limit): at most limit of the  *)
(* matching rows, in an order the query leaves open                        *)
Filter(name, qualname_prefix, limit) ==
    /\ \E selected \in SUBSET Matching(db, name, qualname_prefix) :
          /\ Cardinality(selected) = IF Cardinality(Matching(db, name, qualname_prefix)) <= limit
                                     THEN Cardinality(Matching(db, name, qualname_prefix))
                                     ELSE limit
          /\ \E order \in [1..Cardinality(selected) -> selected] :
                /\ \A i, j \in DOMAIN order : i # j => order[i] # order[j]
                /\ call' = [fn |-> "filter",
                            arg |-> [name |-> name, qualname_prefix |-> qualname_prefix,
                                     limit |-> limit],
                            res |-> [i \in DOMAIN order |-> FilteredRow(db, order[i])],
                            done |-> TRUE]
    /\ UNCHANGED storeVars
    /\ UNCHANGED tracingVars

(* ---- monkeytype.cli: the stub command ---- *)
(* util.get_func_in_module: NameLookupError, a MonkeyTypeError, for a      *)
(* function that importable, the code as it is now, no longer has          *)
get_func_in_module(importable, module, qualname) ==
    IF Function(module, qualname) \in importable
    THEN Returned(Function(module, qualname))
    ELSE Raised

(* CallTraceRow.to_trace: the function looked up and the types decoded     *)
(* from their JSON text; int and str can always be looked up               *)
to_trace(importable, row) ==
    IF get_func_in_module(importable, row.module, row.qualname).raised
    THEN Raised
    ELSE Returned(CHOOSE t \in StoredTraces :
                      IF from_trace(t).raised THEN FALSE ELSE from_trace(t).value = row)

(* the loop of get_stub over the thunks: the traces decoded, the number of *)
(* thunks that failed and the warnings printed to stderr                   *)
RECURSIVE decode_thunks(_, _, _)
decode_thunks(importable, thunks, verbose) ==
    IF Len(thunks) = 0
    THEN [traces |-> <<>>, failed_to_decode_count |-> 0, stderr |-> <<>>]
    ELSE LET trace == to_trace(importable, Head(thunks))
             rest == decode_thunks(importable, Tail(thunks), verbose)
         IN  IF trace.raised
             THEN [rest EXCEPT
                      !.failed_to_decode_count = @ + 1,
                      !.stderr = (IF verbose
                                  THEN <<"WARNING: Failed decoding trace: Module '"
                                             \o Head(thunks).module \o "' has no attribute '"
                                             \o Head(thunks).qualname \o "'">>
                                  ELSE <<>>) \o @]
             ELSE [rest EXCEPT !.traces = <<trace.value>> \o @]

(* the configs the command is run with: DefaultConfig, and a config of the *)
(* user's whose class defines a method max_typed_dict_size; Config and     *)
(* DefaultConfig define none                                               *)
Configs == {"DefaultConfig", "ConfigWithTypedDictSize"}
has_max_typed_dict_size(cli_config) == cli_config = "ConfigWithTypedDictSize"

(* stubs.build_module_stubs_from_traces: the traces are indexed by their   *)
(* function and get_updated_definition shrinks the types of each function; *)
(* the stubs are kept as the functions they define                         *)
build_module_stubs_from_traces(trs, max_typed_dict_size) ==
    LET funcs == {trs[i].func : i \in DOMAIN trs}
        index(func) == SetToSeq({trs[i] : i \in {j \in DOMAIN trs : trs[j].func = func}})
    IN  IF \E func \in funcs : shrink_traced_types(index(func), max_typed_dict_size).raised
        THEN Raised
        ELSE Returned(funcs)

(* main(['stub', module]) on the thunks the store returned: get_stub,   *)
(* print_stub_handler and main. An exception that is no HandlerError       *)
(* leaves main: the command ends with a traceback and status 1             *)
stub_command(importable, module, thunks, verbose, cli_config) ==
    LET decoded == decode_thunks(importable, thunks, verbose)
        stderr == decoded.stderr \o
                  (IF decoded.failed_to_decode_count > 0 /\ ~verbose
                   THEN <<ToString(decoded.failed_to_decode_count)
                              \o " traces failed to decode; use -v for details">>
                   ELSE <<>>)
    IN  IF Len(decoded.traces) = 0
        THEN [raised |-> FALSE, ret |-> 0,
              stderr |-> stderr \o <<"No traces found for module " \o module>>,
              traces |-> <<>>]
        ELSE IF ~has_max_typed_dict_size(cli_config)
        THEN [raised |-> TRUE, ret |-> 1, stderr |-> stderr, traces |-> <<>>]
        ELSE IF build_module_stubs_from_traces(decoded.traces, 0).raised
        THEN [raised |-> TRUE, ret |-> 1, stderr |-> stderr, traces |-> <<>>]
        ELSE [raised |-> FALSE, ret |-> 0, stderr |-> stderr, traces |-> decoded.traces]

(* the stub command for module name, run while the functions importable    *)
(* can be imported                                                         *)
Stub(name, verbose, cli_config, importable) ==
    /\ \E order \in [1..Cardinality(Matching(db, name, NoneStr)) -> Matching(db, name, NoneStr)] :
          /\ \A i, j \in DOMAIN order : i # j => order[i] # order[j]
          /\ LET thunks == [i \in DOMAIN order |-> FilteredRow(db, order[i])]
             IN  call' = [fn |-> "stub",
                          arg |-> [name |-> name, verbose |-> verbose, config |-> cli_config,
                                   importable |-> importable, thunks |-> thunks],
                          res |-> stub_command(importable, name, thunks, verbose, cli_config),
                          done |-> TRUE]
    /\ UNCHANGED storeVars
    /\ UNCHANGED tracingVars

(* serialize_traces(trs), consumed to its end *)
SerializeTraces ==
    /\ call.fn = "serialize_traces" /\ ~call.done
    /\ Return(serialize_traces(call.arg))

InitEncoding ==
    /\ TracerIdle
    /\ StoreInit
    /\ \E trs \in SeqsUpTo(StoredTraces, MaxAdded) : call = Pending("serialize_traces", trs)

NextEncoding == SerializeTraces

SpecEncoding == InitEncoding /\ [][NextEncoding]_vars

InitStore == TracerIdle /\ StoreInit /\ call = NoCall

(* the functions that may have gone since their traces were stored *)
Importables ==
    {StoredFunctions \ ({NotAFunction} \cup gone) :
        gone \in SUBSET {Function("tests.db.test_sqlite", "func"),
                         Function("tests.db.test_sqlite", "func2")}}

NextStore ==
    \/ \E trs \in SeqsUpTo(StoredTraces, MaxTraces) : Len(trs) >= 1 /\ Add(trs)
    \/ \E name \in StoredModules, qualname_prefix \in {NoneStr, "func", "func2"},
          limit \in {1, DefaultLimit} :
              Filter(name, qualname_prefix, limit)
    \/ \E name \in StoredModules, verbose \in BOOLEAN, cli_config \in Configs,
          importable \in Importables :
              Stub(name, verbose, cli_config, importable)

SpecStore == InitStore /\ [][NextStore]_vars

(* ---- monkeytype.db.base.CallTraceStoreLogger ---- *)
MaxLogged == 3
MaxFlushes == 3

(* the traces the logger is given: calls of a function of module __main__  *)
(* and of func and func2 of the test module                                *)
LoggedFunctions ==
    {Function("__main__", "func"), Function("tests.db.test_base", "func"),
     Function("tests.db.test_base", "func2")}
LoggedTraces == {CallTrace(f, [a |-> T_int, b |-> T_str]) : f \in LoggedFunctions}

(* CallTraceStoreLogger.log; entry is the trace with the number of the call *)
CallTraceStoreLogger_log(buf, entry) ==
    IF ~(entry.trace.func.__module__ = "__main__") THEN Append(buf, entry) ELSE buf

(* a flush that empties the buffer before store.add is known to return *)
CallTraceStoreLogger_flush_clear_first(buf, add_raises) ==
    [passed |-> buf, raised |-> add_raises, traces |-> <<>>]

(* CallTraceStoreLogger.flush: the list passed to store.add, whether the   *)
(* exception of store.add leaves flush, and self.traces afterwards: the    *)
(* assignment of the empty list is not reached when store.add raises       *)
CallTraceStoreLogger_flush(buf, add_raises) ==
    [passed |-> buf, raised |-> add_raises, traces |-> IF add_raises THEN buf ELSE <<>>]

(* the traces of buffer entries, in order *)
TracesOf(buf) == [i \in DOMAIN buf |-> buf[i].trace]

(* history: the log calls so far, each with its trace and the number of    *)
(* flush calls made before it, kept in the call record                     *)
LogHistory == IF call.fn \in {"log", "flush"} THEN call.res ELSE <<>>
LogCount == Len(LogHistory)

Log(trace) ==
    /\ LogCount < MaxLogged
    /\ buffer' = CallTraceStoreLogger_log(buffer, [n |-> LogCount + 1, trace |-> trace])
    /\ call' = [fn |-> "log", arg |-> trace,
                res |-> Append(LogHistory, [trace |-> trace, at |-> Len(passed)]),
                done |-> TRUE]
    /\ UNCHANGED <<db, added, passed>>
    /\ UNCHANGED tracingVars

(* flush(): store.add is SQLiteStore.add, which runs in a transaction      *)
(* (`with self.conn`) and either stores the traces or raises the error of  *)
(* the database and stores nothing                                         *)
Flush(add_raises) ==
    /\ Len(passed) < MaxFlushes
    /\ LET out == CallTraceStoreLogger_flush(buffer, add_raises) IN
       /\ passed' = Append(passed, [traces |-> out.passed, raised |-> out.raised])
       /\ buffer' = out.traces
       /\ db' = IF add_raises THEN db ELSE add(db, TracesOf(out.passed))
       /\ added' = IF add_raises THEN added
                   ELSE added \cup {out.passed[i].trace : i \in DOMAIN out.passed}
    /\ call' = [fn |-> "flush", arg |-> <<>>, res |-> LogHistory, done |-> TRUE]
    /\ UNCHANGED tracingVars

NextLogger ==
    \/ \E trace \in LoggedTraces : Log(trace)
    \/ \E add_raises \in BOOLEAN : Flush(add_raises)

SpecLogger == InitStore /\ [][NextLogger]_vars

(* ---- properties ---- *)
(* the positions of tracer t's logger that hold a record of frame f *)
LogsOf(t, f) == {i \in DOMAIN logged[t] : logged[t][i].frame = f}

(* the operations that deliver a call or return event *)
EventOps == {"call", "yield", "resume", "return", "raise", "unwind"}

(* frame f is a traced call of its owner whose events raised no type error *)
TracedCall(f) == fhist[f].owner # NoHook /\ fhist[f].call = "created" /\ ~fhist[f].fail

(* C1: within one scope, every traced call whose frame delivers its        *)
(* terminating return event (normal return or unhandled exception) to the  *)
(* tracer is logged exactly once, and no call is logged twice.             *)
C1_OneLogPerTracedCall ==
    \A f \in Frames :
        /\ \A t \in Tracers : Cardinality(LogsOf(t, f)) <= 1
        /\ (TracedCall(f) /\ fhist[f].term.how # "none" /\ fhist[f].term.toOwner)
               => Cardinality(LogsOf(fhist[f].owner, f)) = 1

(* C2: a scope's logger is flushed exactly once, when the scope is left,   *)
(* normally or by an exception, and never while the scope is open; with    *)
(* nested scopes this holds of each scope.                                 *)
C2_FlushOncePerScope ==
    \A t \in Tracers :
        /\ tstate[t] = "exited" => flushed[t] = 1
        /\ tstate[t] # "exited" => flushed[t] = 0

(* an inner scope has just been left by an exception while the outer scope *)
(* is still open: the inner logger is flushed once, the outer not yet      *)
C2_Witness ==
    /\ last.op = "exit" /\ last.path = "raise"
    /\ \E t, u \in Tracers :
           /\ t # u /\ last.t = u
           /\ tstate[t] = "active" /\ tstate[u] = "exited"
           /\ flushed[u] = 1 /\ flushed[t] = 0

TypesOf(vals) == UNION {get_type(v) : v \in vals}

(* C4: a yield leaves the record in flight and unlogged, and the record    *)
(* logged when the generator returns has as yield_type the union of the    *)
(* types of all the values it yielded (absent if it yielded nothing).      *)
C4_YieldTypeIsUnionOfYields ==
    /\ \A f \in Frames :
           (fstate[f] = "suspended" /\ TracedCall(f) /\ profile = fhist[f].owner)
               => f \in DOMAIN traces[profile] /\ LogsOf(profile, f) = {}
    /\ \A t \in Tracers : \A i \in DOMAIN logged[t] :
           LET e == logged[t][i]
           IN  fhist[e.frame].term.how = "return"
                   => e.trace.yield_type = TypesOf(fhist[e.frame].yvals)

(* C5: the arg_types of an in-flight record has an entry for every         *)
(* declared parameter of the function that is bound in the frame's locals  *)
(* at entry.                                                               *)
C5_ArgTypesCoverParameters ==
    \A t \in Tracers : \A f \in DOMAIN traces[t] :
        DOMAIN traces[t][f].arg_types = Parameters(fcode[f]) \cap DOMAIN flocals[f]

(* C6: a call for which the type of an argument, of a yielded value or of  *)
(* the return value could not be computed is never logged.                 *)
C6_TypeFailureDropsCall ==
    \A f \in Frames :
        fhist[f].fail => LogsOf(fhist[f].owner, f) = {}

(* C7: the hook returns normally for every event, whichever step of        *)
(* handling it raises.                                                     *)
C7_HookNeverRaises == last.ret # "raised"

(* the frame's code is rejected by the filter of tracer t *)
Rejected(t, f) ==
    /\ should_trace[t] # "None"
    /\ fcode[f] \in Codes
    /\ should_trace_result(should_trace[t], fcode[f]) = "False"

(* a call whose code fails the predicate has no record, no logged record   *)
(* and no cache entry in the tracer                                        *)
C8_RejectedUntouched ==
    \A t \in Tracers : \A f \in Frames :
        Rejected(t, f) =>
            /\ f \notin DOMAIN traces[t]
            /\ LogsOf(t, f) = {}
            /\ fcode[f] \notin DOMAIN cache[t]

(* the last event went to a tracer without a filter *)
LastUnfiltered ==
    last.op \in EventOps /\ last.t # NoHook /\ should_trace[last.t] = "None"

C8_RejectedStep ==
    (last' # last /\ last'.path = "filtered") => UNCHANGED <<traces, cache, logged>>

C9_UnsampledUntraced ==
    \A f \in Frames :
        fhist[f].call = "unsampled" =>
            /\ sample_rate[fhist[f].owner] # 0
            /\ f \notin DOMAIN traces[fhist[f].owner]
            /\ LogsOf(fhist[f].owner, f) = {}

(* a return or yield event of a call that was not selected changes nothing *)
(* in any tracer                                                           *)
C9_UnsampledStep ==
    (/\ last' # last
     /\ last'.op \in {"yield", "return", "raise", "unwind"}
     /\ fhist[last'.f].call = "unsampled"
     /\ fhist[last'.f].owner = last'.t)
        => UNCHANGED <<traces, cache, logged>>

C10_InFlightUnlogged ==
    \A t \in Tracers :
        tstate[t] = "exited" => \A f \in DOMAIN traces[t] : LogsOf(t, f) = {}

(* the tracer and logger of a scope that has been left do not change *)
C10_ExitedStep ==
    \A t \in Tracers :
        tstate[t] = "exited" => logged'[t] = logged[t] /\ traces'[t] = traces[t]

(* C10: a record still in flight when its scope is left is never passed to *)
(* logger.log, neither before the scope's flush nor after it.              *)
C10_InFlightDiscarded == []C10_InFlightUnlogged /\ [][C10_ExitedStep]_vars

(* a frame with a record in a scope that has been left has since ended,    *)
(* and its record is still unlogged                                        *)
C10_Witness ==
    \E t \in Tracers : \E f \in DOMAIN traces[t] :
        /\ tstate[t] = "exited" /\ flushed[t] = 1
        /\ fstate[f] = "done"
        /\ LogsOf(t, f) = {}

(* the tuple ts with its elements rearranged by the permutation p *)
Reordered(ts, p) == [i \in DOMAIN ts |-> ts[p[i]]]

(* C11: the result of shrink_types does not change when the inputs are     *)
(* reordered or one of them is given once more, and for one input type,    *)
(* given once or several times, it is that type.                           *)
C11_ShrinkOfDistinctTypes ==
    (call.fn = "shrink_types" /\ call.done) =>
        LET ts == call.arg IN
        /\ \A p \in Permutations(DOMAIN ts) : shrink_types(Reordered(ts, p)) = call.res
        /\ \A i \in DOMAIN ts : shrink_types(Append(ts, ts[i])) = call.res
        /\ (Len(ts) >= 1 /\ \A i \in DOMAIN ts : ts[i] = ts[1]) => call.res = ts[1]

(* shrink_types has returned for three inputs, two of them the same type *)
C11_Witness ==
    /\ call.fn = "shrink_types" /\ call.done
    /\ Len(call.arg) = 3
    /\ call.arg[1] = T_int /\ call.arg[2] = T_str /\ call.arg[3] = T_int
    /\ call.res = Union(T_int, T_str)

(* t is a record shape; its fields; the names and types of its fields *)
IsTypedDict(t) == \E term \in t : t = {term} /\ term.origin = "TypedDict"
FieldsOf(t) == (CHOOSE term \in t : TRUE).args[1]
FieldNames(ts) == {f.origin : f \in UNION {FieldsOf(ts[i]) : i \in DOMAIN ts}}
FieldTypes(ts, name) ==
    UNION {f.args[1] : f \in {g \in UNION {FieldsOf(ts[i]) : i \in DOMAIN ts} :
                                 g.origin = name}}
RequiredIn(t, name) ==
    \E f \in FieldsOf(t) : f.origin = name /\ f.args[2] = {Class("required")}

(* the record shape the inputs merge to *)
MergedShape(ts) ==
    TypedDictOf({Field(n, FieldTypes(ts, n), \A i \in DOMAIN ts : RequiredIn(ts[i], n)) :
                    n \in FieldNames(ts)})

(* the string-keyed mapping the inputs fall back to *)
FallbackDict(ts) ==
    {Generic("Dict", <<T_str, UNION {FieldTypes(ts, n) : n \in FieldNames(ts)}>>)}

(* shrink_types has returned for inputs that are all record shapes *)
ShrunkShapes ==
    /\ call.fn = "shrink_types" /\ call.done
    /\ Len(call.arg) >= 1
    /\ \A i \in DOMAIN call.arg : IsTypedDict(call.arg[i])

(* C12: for record-shape inputs whose merged shape fits the size budget,   *)
(* shrink_types returns the record shape in which a field is required iff  *)
(* it is required in every input, typed with the union of its types.       *)
C12_ShapesMergeWithinBudget ==
    ShrunkShapes =>
        \A b \in Budgets :
            Cardinality(FieldNames(call.arg)) <= b => call.res = MergedShape(call.arg)

(* C13: for record-shape inputs whose merged shape has more fields than    *)
(* the size budget, shrink_types returns Dict[str, V], V the union of the  *)
(* types of all fields of all inputs.                                      *)
C13_ShapesFallBackBeyondBudget ==
    ShrunkShapes =>
        \A b \in Budgets :
            Cardinality(FieldNames(call.arg)) > b => call.res = FallbackDict(call.arg)

(* the field name a string key gives *)
key_name(k) ==
    CASE k = "k_a" -> "a" [] k = "k_b" -> "b" [] k = "k_foo" -> "foo" [] OTHER -> "s"

StringKeys == {"s", "k_a", "k_b", "k_foo"}

(* the type of an object under size budget b: a dict whose keys are all    *)
(* strings and no more than b is a record shape with one required field    *)
(* per key, any other dict a generic mapping; the same for nested dicts    *)
RECURSIVE TypeWithinBudget(_, _)
TypeWithinBudget(obj, b) ==
    IF obj \notin DictObjects THEN get_type(obj)
    ELSE LET ks == dict_keys(obj)
             vs == dict_values(obj)
             vts == [i \in DOMAIN vs |-> TypeWithinBudget(vs[i], b)]
         IN  IF b = 0 \/ Len(ks) > b \/ Len(ks) = 0
                  \/ \E i \in DOMAIN ks : ks[i] \notin StringKeys
             THEN {Generic("Dict",
                      <<shrink_types([i \in DOMAIN ks |-> get_type(ks[i])]), shrink_types(vts)>>)}
             ELSE TypedDictOf({Field(key_name(ks[i]), vts[i], TRUE) : i \in DOMAIN ks})

(* C14: get_type of a dict obeys the size budget: a generic mapping Dict[K, *)
(* V] for budget 0, a non-string key or more keys than the budget, else a  *)
(* record shape with one required field per key, nested dicts likewise.    *)
C14_DictTypeObeysBudget ==
    (call.fn = "get_type" /\ call.done /\ call.arg \in DictObjects) =>
        \A b \in Budgets : call.res = TypeWithinBudget(call.arg, b)

(* C15: shrink_traced_types over the records of one callable returns no    *)
(* return type exactly when no record has one and else the shrink of the   *)
(* return types present, the same for the yield type, and for each         *)
(* parameter the shrink of its types over the records that contain it.     *)
C15_ShrinkTracedTypes ==
    (call.fn = "shrink_traced_types" /\ call.done) =>
        LET call_traces == call.arg.traces
            shrink(ts) == shrink_types(SetToSeq(ts))
        IN  /\ ~call.res.raised
            /\ LET res == call.res.value IN
               /\ res[2] = NoType <=> return_types_of(call_traces) = {}
               /\ res[2] # NoType => res[2] = shrink(return_types_of(call_traces))
               /\ res[3] = NoType <=> yield_types_of(call_traces) = {}
               /\ res[3] # NoType => res[3] = shrink(yield_types_of(call_traces))
               /\ DOMAIN res[1] = arg_names_of(call_traces)
               /\ \A n \in DOMAIN res[1] : res[1][n] = shrink(arg_types_of(call_traces, n))

(* RemoveEmptyContainers has rewritten a union; its empty-container        *)
(* members and its other members                                           *)
EmptiesRemoved ==
    /\ call.fn = "rewrite" /\ call.done
    /\ call.arg.self.cls = "RemoveEmptyContainers"
    /\ is_union(call.arg.typ)
EmptyMembers(union) == {m \in UnionArgs(union) : _is_empty(m)}
OtherMembers(union) == UnionArgs(union) \ EmptyMembers(union)

TupleElements(args) ==
    UNION {{TermOf(args[i]).args[k] : k \in DOMAIN TermOf(args[i]).args} : i \in DOMAIN args}
CommonAncestors(args) ==
    {c \in Classes \ {"object"} : \A i \in DOMAIN args : issubclass(args[i], c)}

(* what a union of more than max members is to be rewritten to *)
LargeUnionRewritten(args) ==
    IF /\ \A i \in DOMAIN args : is_generic_of(args[i], "Tuple")
       /\ Cardinality(TupleElements(args)) = 1
    THEN VariadicTuple(CHOOSE v \in TupleElements(args) : TRUE)
    ELSE IF CommonAncestors(args) # {}
    THEN {Class(CHOOSE c \in CommonAncestors(args) :
                    \A d \in CommonAncestors(args) : issubclass({Class(c)}, d))}
    ELSE AnyType

(* C17: RewriteLargeUnion(max) leaves a union of at most max members       *)
(* unchanged and rewrites a larger one to Tuple[V, ...] if every member is *)
(* a fixed-arity tuple of elements of the one type V, else to the nearest  *)
(* class other than object that every member is a subclass of, else to Any *)
C17_LargeUnionRewritten ==
    (call.fn = "RewriteLargeUnion.rewrite" /\ call.done) =>
        LET args == call.arg.args IN
        /\ ~call.res.raised
        /\ call.res.value = IF Len(args) <= call.arg.self.max_union_len
                            THEN UnionOf(args)
                            ELSE LargeUnionRewritten(args)

(* the rows of the traces added so far for functions of module name *)
AddedRows(name) ==
    {from_trace(t).value : t \in {u \in added : ~from_trace(u).raised /\ u.func.__module__ = name}}

(* C18: after any sequence of add calls, filter(module) with a sufficient  *)
(* limit returns exactly one thunk per distinct (function, arg types,      *)
(* return type, yield type) added for a function of that module: none is   *)
(* missing, none appears twice, none is of a function of another module.   *)
C18_FilterReturnsAddedOnce ==
    (/\ call.fn = "filter" /\ call.done
     /\ call.arg.qualname_prefix = NoneStr
     /\ call.arg.limit >= Cardinality(added)) =>
        /\ {call.res[i] : i \in DOMAIN call.res} = AddedRows(call.arg.name)
        /\ Len(call.res) = Cardinality(AddedRows(call.arg.name))

(* C19: serialize_traces yields, in input order, one row for exactly the   *)
(* traces that serialize; a trace whose serialization raises is logged and *)
(* skipped and does not keep later traces from being serialized.           *)
C19_SerializeIsolatesFailures ==
    (call.fn = "serialize_traces" /\ call.done) =>
        LET trs == call.arg
            ok == SelectSeq(trs, LAMBDA t : "__qualname__" \in DOMAIN t.func)
        IN  /\ Len(call.res.rows) = Len(ok)
            /\ \A i \in DOMAIN ok :
                   /\ call.res.rows[i] = from_trace(ok[i]).value
                   /\ call.res.rows[i].qualname = ok[i].func.__qualname__
            /\ Len(call.res.log) = Len(trs) - Len(ok)

(* a trace that serializes has been yielded after one that does not *)
C19_Witness ==
    /\ call.fn = "serialize_traces" /\ call.done
    /\ Len(call.arg) = 3
    /\ call.arg[1].func = Function("tests.db.test_sqlite", "func")
    /\ call.arg[2].func = NotAFunction
    /\ call.arg[3].func = Function("tests.db.test_sqlite", "func2")
    /\ Len(call.res.rows) = 2 /\ call.res.rows[2].qualname = "func2"
    /\ Len(call.res.log) = 1

(* the thunks of a finished stub command that could not be decoded *)
FailedThunks ==
    {i \in DOMAIN call.arg.thunks : to_trace(call.arg.importable, call.arg.thunks[i]).raised}

(* C20: when the stub command meets thunks that cannot be decoded, they    *)
(* are skipped, their number (one warning each in verbose mode) is         *)
(* reported on stderr, every other thunk is decoded and used, and the      *)
(* command returns 0.                                                      *)
C20_UndecodableThunkNotFatal ==
    (call.fn = "stub" /\ call.done /\ FailedThunks # {}) =>
        /\ ~call.res.raised /\ call.res.ret = 0
        /\ IF call.arg.verbose
           THEN Len(call.res.stderr) >= Cardinality(FailedThunks)
           ELSE \E i \in DOMAIN call.res.stderr :
                    call.res.stderr[i] = ToString(Cardinality(FailedThunks))
                                             \o " traces failed to decode; use -v for details"
        /\ Len(call.res.traces) = Len(call.arg.thunks) - Cardinality(FailedThunks)
        /\ \A i \in DOMAIN call.arg.thunks \ FailedThunks :
               \E k \in DOMAIN call.res.traces :
                   call.res.traces[k] = to_trace(call.arg.importable, call.arg.thunks[i]).value

(* ---- C21 ---- *)
(* func and the functions its __wrapped__ chain leads to *)
RECURSIVE WrappedChain(_)
WrappedChain(func) ==
    IF func = NoneObj THEN {} ELSE {func} \cup WrappedChain(wrapped_of(func))

(* the functions a stored attribute stands for: the function under a       *)
(* classmethod, staticmethod, getter-only property or cached_property, the *)
(* attribute itself otherwise                                              *)
Unwrapped(val) ==
    IF val \in {"staticmethod_a_static_method", "classmethod_a_class_method",
                "property_a_property", "cached_property_a_cached_property"}
    THEN descriptor_func(val)
    ELSE val

(* the functions with the frame's code that each step can find *)
WithCode(funcs, code) == {f \in funcs : code_of(f) = code}
ByGlobal(frame) ==
    WithCode(WrappedChain(f_globals_get(co_name(frame.f_code))), frame.f_code)
ByAttribute(obj, frame) ==
    WithCode(WrappedChain(Unwrapped(getattr_static(obj, co_name(frame.f_code)))), frame.f_code)
ByFirstArgument(frame) ==
    IF co_argcount(frame.f_code) >= 1
    THEN ByAttribute(frame.f_locals[co_varnames(frame.f_code)[1]], frame)
    ELSE {}
ByGlobalClasses(frame) ==
    UNION {ByAttribute(v, frame) : v \in {g \in GlobalValues : IsClass(g)}}

(* the first step that finds something decides *)
FirstSuccess(frame) ==
    IF ByGlobal(frame) # {} THEN ByGlobal(frame)
    ELSE IF ByFirstArgument(frame) # {} THEN ByFirstArgument(frame)
    ELSE ByGlobalClasses(frame)

(* C21: get_func returns what the first successful step among the global   *)
(* of the code's name, the attribute of the first argument and the          *)
(* attributes of the classes in the globals finds, descriptors unwrapped;   *)
(* when no step succeeds it returns None, and the call event then creates   *)
(* no record and raises nothing.                                            *)
C21_ResolutionOrder ==
    (call.fn = "get_func" /\ call.done) =>
        /\ IF FirstSuccess(call.arg) = {}
           THEN /\ call.res.func = NoneObj
                /\ call.res.handled.s.traces = EmptyDict
                /\ ~call.res.handled.raised
           ELSE call.res.func \in FirstSuccess(call.arg)

(* a static method without arguments has been found under its descriptor  *)
(* on a class of the globals, the first two steps having failed            *)
C21_Witness ==
    /\ call.fn = "get_func" /\ call.done
    /\ call.arg.f_code = "a_static_method"
    /\ ByGlobal(call.arg) = {} /\ ByFirstArgument(call.arg) = {}
    /\ call.res.func = "fn_a_static_method"

(* ---- C22 ---- *)
(* this step delivers a call event (first call or resumption) of frame f *)
CallStep(f) == Len(stack') = Len(stack) + 1 /\ stack'[Len(stack')] = f

(* the branches of a call event that pass the filter and the sampling *)
HandledCallPaths == {"unresolved", "resuming", "created", "typeerror"}

(* this step is a call event of frame f that tracer t handles *)
HandledCallStep(t, f) == CallStep(f) /\ profile = t /\ last'.path \in HandledCallPaths

(* a tracer that was not constructed yet has no cache entry *)
C22_FreshCache == \A t \in Tracers : tstate[t] = "unused" => cache[t] = EmptyDict

C22_CacheStep ==
    \A t \in Tracers :
        /\ \A c \in DOMAIN cache[t] : c \in DOMAIN cache'[t] /\ cache'[t][c] = cache[t][c]
        /\ \A f \in Frames : HandledCallStep(t, f) =>
               LET c == fcode'[f] IN
               /\ DOMAIN cache'[t] = DOMAIN cache[t] \cup {c}
               /\ (last'.path = "unresolved") <=> (cache'[t][c] = NoneObj)
               /\ last'.path = "created" => traces'[t][f].func = cache'[t][c]
        /\ (~\E f \in Frames : HandledCallStep(t, f)) => cache'[t] = cache[t]

(* C22: a tracer's cache gets the entry of a code object at the first call  *)
(* event it handles for that code object, whether the resolution succeeded  *)
(* or not; an entry never changes afterwards and decides every later call   *)
(* event of that code object; only the call events a tracer handles itself  *)
(* change its cache, which is empty when the tracer is constructed.         *)
C22_ResolvedOncePerCode == []C22_FreshCache /\ [][C22_CacheStep]_vars

(* a method was first called on an object that does not have it and then   *)
(* on an instance: the failure stored at the first call decides the second *)
C22_Witness ==
    \E t \in Tracers :
        /\ fcode[1] = "local_method" /\ flocals[1]["self"] = "i"
        /\ fcode[2] = "local_method" /\ flocals[2]["self"] = "obj_Local"
        /\ fhist[1].owner = t /\ fhist[2].owner = t
        /\ fhist[1].call = "unresolved" /\ fhist[2].call = "unresolved"
        /\ cache[t]["local_method"] = NoneObj

(* ---- C23 ---- *)
(* this step delivers the call event of a resumption of frame f *)
ResumeStep(f) == CallStep(f) /\ fstate[f] = "suspended"

(* the types of the positional arguments frame f was called with *)
EntryArgTypes(f) ==
    LET names == {arg_names(fcode[f])[i] : i \in 1..Len(arg_names(fcode[f]))}
    IN  [n \in names \cap DOMAIN flocals[f] |-> get_type(flocals[f][n])]

(* a resumption changes no in-flight record and logs nothing *)
C23_ResumeStep ==
    \A f \in Frames : ResumeStep(f) => (traces' = traces /\ logged' = logged)

(* an in-flight record belongs to a frame whose first call event its       *)
(* tracer traced, and carries the argument types of that first call        *)
C23_RecordFromFirstCall ==
    \A t \in Tracers : \A f \in DOMAIN traces[t] :
        /\ fhist[f].owner = t /\ fhist[f].call = "created"
        /\ traces[t][f].arg_types = EntryArgTypes(f)

EventFrame ==
    IF Len(stack') > Len(stack) THEN stack'[Len(stack')]
    ELSE IF Len(stack') < Len(stack) THEN stack[Len(stack)]
    ELSE 0

(* tracer t holds the same record, or none, for frame g before and after *)
RecordUnchanged(t, g) ==
    /\ g \in DOMAIN traces[t] <=> g \in DOMAIN traces'[t]
    /\ g \in DOMAIN traces[t] => traces'[t][g] = traces[t][g]

(* C24: a step that delivers a call, yield or return event of frame F       *)
(* changes, in every tracer, at most the in-flight record keyed by F; the   *)
(* records of all other frames stay as they are, however the events of the  *)
(* frames interleave.                                                       *)
C24_OtherFramesUntouched ==
    [][\A t \in Tracers : \A g \in Frames : g # EventFrame => RecordUnchanged(t, g)]_vars

(* an inner call has been traced from its call to its logged return while  *)
(* a traced generator is suspended: the generator's record is still there  *)
C24_Witness ==
    /\ last.op = "return" /\ last.path = "logged" /\ last.f = 2
    /\ fstate[1] = "suspended" /\ fhist[1].owner = last.t
    /\ 1 \in DOMAIN traces[last.t]
    /\ traces[last.t][1].yield_type = {Class("int")}
    /\ 2 \notin DOMAIN traces[last.t]

(* ---- C25 ---- *)
(* this step enters a scope; this step leaves the innermost scope *)
EnterStep == Len(scopes') = Len(scopes) + 1
ExitStep == Len(scopes') = Len(scopes) - 1

C25_ExitStep ==
    /\ EnterStep => scopes'[Len(scopes')].old_trace = profile
    /\ ExitStep =>
          /\ profile' = scopes[Len(scopes)].old_trace
          /\ last'.op = "exit" /\ last'.hook = scopes[Len(scopes)].old_trace
          /\ flushed'[scopes[Len(scopes)].tracer] = flushed[scopes[Len(scopes)].tracer] + 1

(* C25: leaving a scope, normally or by an exception, installs the hook     *)
(* that was installed when the scope was entered, and that hook is already  *)
(* installed when the scope's logger is flushed; after a nested scope is    *)
(* left, the hook is the one the outer scope had when the inner one began.  *)
C25_HookRestoredBeforeFlush == [][C25_ExitStep]_vars

(* an inner scope that was entered under the outer scope's tracer has been *)
(* left by an exception: the outer tracer is the hook, and was when the    *)
(* inner logger was flushed                                                *)
C25_Witness ==
    /\ last.op = "exit" /\ last.path = "raise"
    /\ \E t, u \in Tracers :
           /\ t # u /\ last.t = u
           /\ tstate[t] = "active" /\ tstate[u] = "exited"
           /\ profile = t /\ last.hook = t /\ flushed[u] = 1

(* ---- C28 ---- *)
(* the terminating return event of frame f has been delivered to tracer t *)
TerminatedUnder(t, f) ==
    fstate[f] = "done" /\ fhist[f].term.how # "none" /\ fhist[f].term.toOwner
        /\ fhist[f].owner = t

(* C28: a key of a tracer's in-flight map is a frame whose call event the   *)
(* tracer traced and whose terminating return event (return, exception,     *)
(* termination at a suspended yield, whatever its handling raised) the      *)
(* tracer has not handled yet.                                              *)
C28_NoDeadFrameKeys ==
    \A t \in Tracers : \A f \in DOMAIN traces[t] :
        /\ fhist[f].owner = t /\ fhist[f].call = "created"
        /\ ~TerminatedUnder(t, f)

(* ---- C29 ---- *)
(* func is a function whose __code__ is code *)
HasExactlyCode(func, code) == func # NoneObj /\ code_of(func) = code

(* C29: every function a tracer's cache stores for a code object, and the   *)
(* func of every in-flight or logged record of a frame, has that code       *)
(* object, respectively the frame's code object, as its __code__: never a   *)
(* wrapper around the function and never a same-named function with other   *)
(* code.                                                                    *)
C29_ResolvedFunctionHasFrameCode ==
    \A t \in Tracers :
        /\ \A c \in DOMAIN cache[t] :
               cache[t][c] # NoneObj => HasExactlyCode(cache[t][c], c)
        /\ \A f \in DOMAIN traces[t] : HasExactlyCode(traces[t][f].func, fcode[f])
        /\ \A i \in DOMAIN logged[t] :
               HasExactlyCode(logged[t][i].trace.func, fcode[logged[t][i].frame])

(* a call of a decorated function has been logged with the function under  *)
(* the wrapper, and a call whose name is bound to another function in the  *)
(* globals was resolved to nothing                                         *)
C29_Witness ==
    \E t \in Tracers :
        /\ "explicit_return_none" \in DOMAIN cache[t]
        /\ cache[t]["explicit_return_none"] = "fn_explicit_return_none"
        /\ f_globals_get("explicit_return_none") = "wrapper_explicit_return_none"
        /\ \E i \in DOMAIN logged[t] : logged[t][i].trace.func = "fn_explicit_return_none"
        /\ "local_square" \in DOMAIN cache[t]
        /\ cache[t]["local_square"] = NoneObj
        /\ f_globals_get(co_name("local_square")) = "fn_async_square"

(* ---- C26 ---- *)
(* the rule of rewriter self changes the union itself *)
RuleApplies(self, union) ==
    CASE self.cls = "RemoveEmptyContainers" ->
             (\E e \in UnionArgs(union) : _is_empty(e)) /\ (\E e \in UnionArgs(union) : ~_is_empty(e))
      [] self.cls = "RewriteConfigDict" ->
             /\ \A e \in UnionArgs(union) : is_generic_of(e, "Dict")
             /\ Cardinality({TermOf(e).args[1] : e \in UnionArgs(union)}) = 1
      [] self.cls = "RewriteLargeUnion" -> Cardinality(union) > self.max_union_len
      [] OTHER -> FALSE

(* typ is a List, Set, Dict or Tuple with type arguments *)
IsContainer(typ) ==
    is_generic(typ) /\ name_of_generic(typ) \in RewrittenContainers
        /\ Len(TermOf(typ).args) > 0

(* C26: each rewriter of the default chain rebuilds a List, Set, Dict or    *)
(* Tuple from its rewritten type arguments, and rebuilds a union its rule   *)
(* leaves unchanged from its rewritten members, so that the rule is applied *)
(* to what is nested inside them.                                           *)
C26_RewritersRecurse ==
    (call.fn = "rewrite" /\ call.done) =>
        LET self == call.arg.self
            typ == call.arg.typ
        IN  /\ IsContainer(typ) =>
                   call.res = {Generic(TermOf(typ).origin,
                                 [i \in DOMAIN TermOf(typ).args |-> rewrite(self, TermOf(typ).args[i])])}
            /\ (is_union(typ) /\ ~RuleApplies(self, typ)) =>
                   call.res = UNION {rewrite(self, e) : e \in UnionArgs(typ)}

(* ---- C30 ---- *)
(* class anc is cls or one of the classes cls derives from *)
RECURSIVE IsAncestor(_, _)
IsAncestor(cls, anc) ==
    cls = anc \/ (cls # "object" /\ IsAncestor(base_of(cls), anc))

(* every member of args is a class derived from the class typ, which is    *)
(* not object                                                              *)
CoversAsClass(typ, args) ==
    /\ is_class(typ) /\ TermOf(typ).origin # "object"
    /\ \A i \in DOMAIN args :
           is_class(args[i]) /\ IsAncestor(TermOf(args[i]).origin, TermOf(typ).origin)

(* typ is Tuple[V, ...] and every member of args is a tuple type whose     *)
(* elements are all V                                                      *)
CoversAsTuple(typ, args) ==
    \E v \in TupleElements(args) :
        /\ typ = VariadicTuple(v)
        /\ \A i \in DOMAIN args :
               /\ is_generic_of(args[i], "Tuple")
               /\ \A k \in DOMAIN TermOf(args[i]).args : TermOf(args[i]).args[k] = v

Occurrences(n, i) ==
    Cardinality({k \in DOMAIN passed[i].traces : passed[i].traces[k].n = n})
InBuffer(n) == \E k \in DOMAIN buffer : buffer[k].n = n
FromMain(n) == LogHistory[n].trace.func.__module__ = "__main__"

(* C27: a trace of module __main__ is never passed to store.add; every      *)
(* other logged trace is passed to store.add exactly once, by the first     *)
(* flush after its log call, and the buffer is empty after a flush.         *)
C27_EachTraceAddedOnce ==
    /\ \A n \in DOMAIN LogHistory : \A i \in DOMAIN passed :
           Occurrences(n, i) =
               IF ~FromMain(n) /\ i = LogHistory[n].at + 1 THEN 1 ELSE 0
    /\ \A n \in DOMAIN LogHistory :
           InBuffer(n) <=> (~FromMain(n) /\ Len(passed) = LogHistory[n].at)
    /\ call.fn = "flush" => buffer = <<>>

(* the first store.add call after a flush calls that returned, 0 if none *)
FirstReturnedAfter(a) ==
    LET returned == {i \in DOMAIN passed : i > a /\ ~passed[i].raised}
    IN  IF returned = {} THEN 0 ELSE CHOOSE i \in returned : \A j \in returned : i <= j

(* C27, amended: a trace of module __main__ is never passed to store.add;   *)
(* every other logged trace is passed to store.add by each flush after its  *)
(* log call up to and including the first one whose store.add returns, and  *)
(* by no later flush; the buffer is empty after a flush whose store.add     *)
(* returned and is kept by a flush whose store.add raised.                  *)
C27_EachTraceAddedUntilStored ==
    /\ \A n \in DOMAIN LogHistory : \A i \in DOMAIN passed :
           Occurrences(n, i) =
               IF /\ ~FromMain(n) /\ i > LogHistory[n].at
                  /\ (FirstReturnedAfter(LogHistory[n].at) = 0
                         \/ i <= FirstReturnedAfter(LogHistory[n].at))
               THEN 1 ELSE 0
    /\ \A n \in DOMAIN LogHistory :
           InBuffer(n) <=> (~FromMain(n) /\ FirstReturnedAfter(LogHistory[n].at) = 0)
    /\ (call.fn = "flush" /\ ~passed[Len(passed)].raised) => buffer = <<>>
    /\ (call.fn = "flush" /\ passed[Len(passed)].raised) => buffer = passed[Len(passed)].traces

(* a trace was passed to a store.add that raised and again to the next     *)
(* one, which returned; a trace of __main__ logged in between was dropped  *)
C27_Witness ==
    /\ Len(passed) = 2 /\ passed[1].raised /\ ~passed[2].raised
    /\ Len(LogHistory) = 2 /\ ~FromMain(1) /\ FromMain(2)
    /\ LogHistory[1].at = 0 /\ LogHistory[2].at = 1
    /\ Occurrences(1, 1) = 1 /\ Occurrences(1, 2) = 1
    /\ buffer = <<>>

====
